---- MODULE Spec2Model ----
(***************************************************************************)
(* Project Hub: the in-memory entity store (MemStorage), the template      *)
(* catalog, and the HTTP boundary (Express routes with their zod schemas). *)
(*                                                                         *)
(* A JavaScript Map is a sequence of entries [key, val] in insertion        *)
(* order: set() of a present key replaces the value in place, set() of a    *)
(* new key appends, delete() removes the entry.  A JavaScript object is a   *)
(* function from its own property names to values; a property that is       *)
(* present with the value undefined is a key mapped to Undefined.           *)
(*                                                                         *)
(* Every store method is an async function.  One action of the model is    *)
(* one synchronous segment of a method: from its call, or from the          *)
(* resumption after an await, up to the next await or the return.  Only    *)
(* createProject awaits (once per template task).                           *)
(***************************************************************************)
EXTENDS Integers, Sequences, FiniteSets, TLC

VARIABLES projects, tasks, contacts, budgetItems, calendarEvents,
          uuidCount, calls, left, given, last, currentDate, view

\* projects .. calendarEvents: the five Maps of MemStorage
\* uuidCount: the identifiers randomUUID() has drawn
\* calls:     the store calls suspended at an await
\* left:      the calls (or requests) the callers may still make in this run
\* given:     per kind, the ids given to its records, in creation order
\* last:      the call or request of the latest step and its outcome
\* currentDate, view: the state of the Calendar page
vars == <<projects, tasks, contacts, budgetItems, calendarEvents,
          uuidCount, calls, left, given, last, currentDate, view>>

\* the state of the Calendar page, which no store method and no route touches
calendar == <<currentDate, view>>

\* ------------------------------------------------------------------ bounds
\* calls of the store's methods in one run of Spec
MaxOps == 5
\* calls of the store's methods in one run of TemplateSpec, interleaved at the awaits
MaxInterleaved == 2
\* calls of the store's methods in one run of CreateDeleteSpec
MaxCreateDelete == 2
\* store calls suspended at an await at the same time
MaxCalls == 1
\* HTTP requests served in one run of RouteSpec
MaxRequests == 3
\* clicks on the Calendar page in one run of CalendarSpec
MaxClicks == 2
\* HTTP requests served in one run of BudgetSpec
MaxBudgetRequests == 3
\* HTTP requests served in one run of StatusSpec
MaxStatusRequests == 4
\* store calls made in one run of WellBehavedSpec
MaxWellBehaved == 3

\* ------------------------------------------------------- values and objects
\* undefined, as the value of a numeric or date valued property
Undefined == -1
\* the reading of the clock, new Date(), during a bounded run
Now == 1
\* the time value of an Invalid Date
NaN == -2

\* {...a, ...b}
Spread(a, b) ==
    [f \in (DOMAIN a) \cup (DOMAIN b) |-> IF f \in DOMAIN b THEN b[f] ELSE a[f]]

\* o.f for a numeric or date valued property
Get(o, f) == IF f \in DOMAIN o THEN o[f] ELSE Undefined

\* ---------------------------------------------------------------- Map
Entry(k, v) == [key |-> k, val |-> v]

Keys(m) == {m[i].key : i \in 1..Len(m)}

\* Map.has(k)
MapHas(m, k) == k \in Keys(m)

\* Map.get(k), for a key that is present
MapGet(m, k) == m[CHOOSE i \in 1..Len(m) : m[i].key = k].val

\* a set(k, v) that moves the entry of a present key to the end
MapSetLast(m, k, v) == Append(SelectSeq(m, LAMBDA e : e.key # k), Entry(k, v))

\* Map.set(k, v)
MapSet(m, k, v) ==
    IF MapHas(m, k)
    THEN [i \in 1..Len(m) |-> IF m[i].key = k THEN Entry(k, v) ELSE m[i]]
    ELSE Append(m, Entry(k, v))

\* a removal by position, splice(indexOf(k), 1): an absent key removes the last entry
MapDeleteSplice(m, k) ==
    IF k \in {m[i].key : i \in 1..Len(m)}
    THEN SelectSeq(m, LAMBDA e : e.key # k)
    ELSE SubSeq(m, 1, Len(m) - 1)

\* Map.delete(k)
MapDelete(m, k) == SelectSeq(m, LAMBDA e : e.key # k)

\* Array.from(m.values())
Values(m) == [i \in 1..Len(m) |-> m[i].val]

\* Array.from(m.values()).filter(x => x.projectId === projectId)
ByProject(m, projectId) ==
    SelectSeq(Values(m), LAMBDA x : Get(x, "projectId") = projectId)

\* ----------------------------------------------------------- identifiers
\* an identifier computed from the number of records stored
randomUUIDFromSize(n) ==
    Len(projects) + Len(tasks) + Len(contacts) + Len(budgetItems) + Len(calendarEvents) + 1

\* randomUUID(): the n+1st identifier drawn, different from the n before it
randomUUID(n) == n + 1

\* --------------------------------------------------------------- templates
WeddingTemplate ==
    <<[title |-> "Book venue", section |-> "Pre-Production"],
      [title |-> "Create shot list", section |-> "Pre-Production"],
      [title |-> "Send questionnaire to couple", section |-> "Pre-Production"],
      [title |-> "Scout location", section |-> "Pre-Production"],
      [title |-> "Confirm timeline with couple", section |-> "Pre-Production"],
      [title |-> "Charge batteries", section |-> "Shoot Day"],
      [title |-> "Pack equipment", section |-> "Shoot Day"],
      [title |-> "Conduct ceremony shots", section |-> "Shoot Day"],
      [title |-> "Capture reception moments", section |-> "Shoot Day"],
      [title |-> "Import and backup photos", section |-> "Post-Production"],
      [title |-> "Cull images", section |-> "Post-Production"],
      [title |-> "Edit selected photos", section |-> "Post-Production"],
      [title |-> "Deliver final gallery", section |-> "Post-Production"]>>

PortraitTemplate ==
    <<[title |-> "Discuss vision with client", section |-> "Pre-Production"],
      [title |-> "Choose location or studio", section |-> "Pre-Production"],
      [title |-> "Plan wardrobe and props", section |-> "Pre-Production"],
      [title |-> "Book makeup artist (if needed)", section |-> "Pre-Production"],
      [title |-> "Set up lighting", section |-> "Shoot Day"],
      [title |-> "Conduct portrait session", section |-> "Shoot Day"],
      [title |-> "Review shots with client", section |-> "Shoot Day"],
      [title |-> "Import and backup photos", section |-> "Post-Production"],
      [title |-> "Retouch selected images", section |-> "Post-Production"],
      [title |-> "Deliver finals to client", section |-> "Post-Production"]>>

CommercialTemplate ==
    <<[title |-> "Review creative brief", section |-> "Pre-Production"],
      [title |-> "Create shot list", section |-> "Pre-Production"],
      [title |-> "Secure permits if needed", section |-> "Pre-Production"],
      [title |-> "Hire crew/assistants", section |-> "Pre-Production"],
      [title |-> "Scout and prepare location", section |-> "Pre-Production"],
      [title |-> "Conduct product/brand shoot", section |-> "Shoot Day"],
      [title |-> "Review shots with client", section |-> "Shoot Day"],
      [title |-> "Import and organize files", section |-> "Post-Production"],
      [title |-> "Edit to brand guidelines", section |-> "Post-Production"],
      [title |-> "Submit for client approval", section |-> "Post-Production"],
      [title |-> "Deliver final assets", section |-> "Post-Production"]>>

EventTemplate ==
    <<[title |-> "Discuss event details with client", section |-> "Pre-Production"],
      [title |-> "Create shot list", section |-> "Pre-Production"],
      [title |-> "Scout venue", section |-> "Pre-Production"],
      [title |-> "Plan equipment needs", section |-> "Pre-Production"],
      [title |-> "Arrive early for setup", section |-> "Shoot Day"],
      [title |-> "Capture key moments", section |-> "Shoot Day"],
      [title |-> "Photograph attendees", section |-> "Shoot Day"],
      [title |-> "Import and backup photos", section |-> "Post-Production"],
      [title |-> "Cull and organize images", section |-> "Post-Production"],
      [title |-> "Edit selected photos", section |-> "Post-Production"],
      [title |-> "Deliver event gallery", section |-> "Post-Production"]>>

BlankTemplate ==
    <<>>

\* names every object inherits from Object.prototype
InheritedNames == {"constructor", "toString", "__proto__"}

\* projectTemplates[type as keyof typeof projectTemplates]
projectTemplates(type) ==
    CASE type = "Wedding" -> [kind |-> "array", items |-> WeddingTemplate]
      [] type = "Portrait" -> [kind |-> "array", items |-> PortraitTemplate]
      [] type = "Commercial" -> [kind |-> "array", items |-> CommercialTemplate]
      [] type = "Event" -> [kind |-> "array", items |-> EventTemplate]
      [] type = "Blank" -> [kind |-> "array", items |-> BlankTemplate]
      [] type \in InheritedNames -> [kind |-> "inherited", items |-> <<>>]
      [] OTHER -> [kind |-> "undefined", items |-> <<>>]

\* ------------------------------------------------------------ store methods
\* the record createProject stores: { ...insertProject, id, createdAt: new Date() }
NewProject(insertProject, id) == Spread(insertProject, [id |-> id, createdAt |-> Now])

\* a createTask argument that files every template entry under the General section
TemplateTaskWithoutSection(id, taskTemplate) ==
    [projectId |-> id, title |-> taskTemplate.title, section |-> "General",
     status |-> "To Do", assignee |-> ""]

\* the argument of the createTask call made for one template entry
TemplateTask(id, taskTemplate) ==
    [projectId |-> id, title |-> taskTemplate.title, section |-> taskTemplate.section,
     status |-> "To Do", assignee |-> ""]

\* the record createTask stores: { ...insertTask, id, createdAt: new Date() }
NewTask(insertTask, id) == Spread(insertTask, [id |-> id, createdAt |-> Now])

\* the record createContact, createBudgetItem, createCalendarEvent store: { ...insert, id }
NewRecord(insert, id) == Spread(insert, [id |-> id])

\* an update that stores data in place of the record
UpdateReplacing(m, id, data) ==
    IF MapHas(m, id) THEN MapSet(m, id, data) ELSE m

\* an update that stores data under an id that is absent
UpdateUpserting(m, id, data) ==
    MapSet(m, id, IF MapHas(m, id) THEN Spread(MapGet(m, id), data) ELSE data)

\* the body of every update method: absent -> the map as it is; else
\* set(id, { ...record, ...data })
Update(m, id, data) ==
    IF MapHas(m, id) THEN MapSet(m, id, Spread(MapGet(m, id), data)) ELSE m

\* one sweep of deleteProject:
\*   Array.from(m.values()).filter(x => x.projectId === id).forEach(x => m.delete(x.id))
Sweep(m, id) ==
    LET doomed == {Get(m[i].val, "id") :
                     i \in {j \in 1..Len(m) : Get(m[j].val, "projectId") = id}}
    IN  SelectSeq(m, LAMBDA e : e.key \notin doomed)

\* a deleteProject that awaited between projects.delete(id) and its sweeps
DeleteProjectAwaitsSweeps == TRUE

\* whether deleteProject gives up control between projects.delete(id) and its sweeps:
\* its body holds no await
DeleteProjectAwaits == FALSE

\* the keys of the records of m that carry projectId
Owned(m, projectId) == {m[i].key : i \in {j \in 1..Len(m) : Get(m[j].val, "projectId") = projectId}}

Dependents(projectId) ==
    Owned(tasks, projectId) \cup Owned(contacts, projectId)
        \cup Owned(budgetItems, projectId) \cup Owned(calendarEvents, projectId)

Range(s) == {s[i] : i \in 1..Len(s)}

\* the list methods: getProjects(), getTasks(), ...
getProjects == Values(projects)
getTasks == Values(tasks)
getContacts == Values(contacts)
getBudgetItems == Values(budgetItems)
getCalendarEvents == Values(calendarEvents)

\* the list methods: getTasksByProject(projectId), ...
getTasksByProject(projectId) == ByProject(tasks, projectId)
getContactsByProject(projectId) == ByProject(contacts, projectId)
getBudgetItemsByProject(projectId) == ByProject(budgetItems, projectId)
getCalendarEventsByProject(projectId) == ByProject(calendarEvents, projectId)

\* getProject(id) reports undefined
getProjectUndefined(id) == ~MapHas(projects, id)

\* ------------------------------------------------------------------ inputs
ProjectTypes == {"Wedding", "Portrait", "Commercial", "Event", "Blank", "Studio", "constructor"}

InsertProjects(types) == {[name |-> "Shoot", type |-> t, status |-> "Planning"] : t \in types}

\* project ids a caller may name: 0, never a project's id, and the ids given to projects
ProjectRefs == {0} \cup Range(given.projects)

InsertTasks ==
    {[projectId |-> p, title |-> "Call client", section |-> "General", status |-> "To Do"] :
        p \in ProjectRefs}

InsertContacts == {[projectId |-> p, name |-> "Ana", role |-> "Client"] : p \in ProjectRefs}

InsertBudgetItems ==
    {[projectId |-> p, description |-> "Studio", plannedCost |-> 100, actualCost |-> 120,
      paymentStatus |-> "Unpaid"] : p \in ProjectRefs}

InsertCalendarEvents ==
    {[projectId |-> p, title |-> "Kickoff", type |-> "Meeting", startDate |-> 5] :
        p \in ProjectRefs}

\* Partial<Project>, Partial<Task>, ...: the data of an update call
ProjectPatches(id) ==
    {[status |-> "Delivered"], [createdAt |-> 0]}
        \cup {[id |-> k] : k \in Keys(projects) \ {id}}

DependentPatches(m, id) ==
    {[createdAt |-> 0]}
        \cup {[id |-> k] : k \in Keys(m) \ {id}}
        \cup {[projectId |-> p] : p \in ProjectRefs}

TaskPatches(id) == {[status |-> "Completed"]} \cup DependentPatches(tasks, id)
ContactPatches(id) == {[role |-> "Assistant"]} \cup DependentPatches(contacts, id)
BudgetItemPatches(id) == {[paymentStatus |-> "Paid"]} \cup DependentPatches(budgetItems, id)
CalendarEventPatches(id) == {[title |-> "Review"]} \cup DependentPatches(calendarEvents, id)

\* the ids a caller may name for a map: 0, never given, and the ids given to its records
Refs(kind) == {0} \cup Range(given[kind])

Result(op, id, res) == [op |-> op, id |-> id, res |-> res]

Gave(kind, ids) == [given EXCEPT ![kind] = @ \o ids]

\* ----------------------------------------------------------------- actions
\* new MemStorage(), and a run of at most ops calls
Start(ops) ==
    /\ left = ops
    /\ projects = <<>>
    /\ tasks = <<>>
    /\ contacts = <<>>
    /\ budgetItems = <<>>
    /\ calendarEvents = <<>>
    /\ uuidCount = 0
    /\ calls = {}
    /\ given = [projects |-> <<>>, tasks |-> <<>>, contacts |-> <<>>, budgetItems |-> <<>>,
                calendarEvents |-> <<>>]
    /\ last = Result("new MemStorage", 0, "returns")
    /\ currentDate = Now
    /\ view = "month"

\* createProject, from its call to its first await, its return or its throw
createProject(insertProject) ==
    LET id == randomUUID(uuidCount)
        template == projectTemplates(insertProject.type)
        templated == /\ insertProject.type # ""
                     /\ insertProject.type # "Blank"
                     /\ template.kind = "array"
                     /\ template.items # <<>>
        throws == /\ insertProject.type # ""
                  /\ insertProject.type # "Blank"
                  /\ template.kind = "inherited"
        taskId == randomUUID(uuidCount + 1)
        task == NewTask(TemplateTask(id, Head(template.items)), taskId)
    IN  /\ left > 0
        /\ templated => Cardinality(calls) < MaxCalls
        /\ projects' = MapSet(projects, id, NewProject(insertProject, id))
        /\ left' = left - 1
        /\ UNCHANGED calendar
        /\ IF templated
           THEN /\ tasks' = MapSet(tasks, taskId, task)
                /\ uuidCount' = uuidCount + 2
                /\ given' = [given EXCEPT !.projects = Append(@, id),
                                          !.tasks = Append(@, taskId)]
                /\ calls' = calls \cup {[op |-> "createProject", id |-> id,
                                         type |-> insertProject.type,
                                         todo |-> Tail(template.items),
                                         created |-> <<task>>, deps |-> {}]}
                /\ last' = Result("createProject", id, "awaits")
           ELSE /\ uuidCount' = uuidCount + 1
                /\ given' = Gave("projects", <<id>>)
                /\ last' = Result("createProject", id, IF throws THEN "throws" ELSE "returns")
                /\ UNCHANGED <<tasks, calls>>
        /\ UNCHANGED <<contacts, budgetItems, calendarEvents>>

\* a suspended call, from its resumption to its next await or its return
Resume(c) ==
    /\ c \in calls
    /\ IF c.op = "createProject" /\ c.todo # <<>>
       THEN LET taskId == randomUUID(uuidCount)
                task == NewTask(TemplateTask(c.id, Head(c.todo)), taskId)
            IN  /\ tasks' = MapSet(tasks, taskId, task)
                /\ uuidCount' = uuidCount + 1
                /\ given' = Gave("tasks", <<taskId>>)
                /\ calls' = (calls \ {c}) \cup
                                {[c EXCEPT !.todo = Tail(@), !.created = Append(@, task)]}
                /\ last' = Result("createTask", taskId, "returns")
                /\ UNCHANGED <<contacts, budgetItems, calendarEvents>>
       ELSE IF c.op = "createProject"
       THEN /\ calls' = calls \ {c}
            /\ last' = Result("createProject", c.id, "returns")
            /\ UNCHANGED <<tasks, contacts, budgetItems, calendarEvents, uuidCount, given>>
       ELSE /\ tasks' = Sweep(tasks, c.id)
            /\ contacts' = Sweep(contacts, c.id)
            /\ budgetItems' = Sweep(budgetItems, c.id)
            /\ calendarEvents' = Sweep(calendarEvents, c.id)
            /\ calls' = calls \ {c}
            /\ last' = Result("deleteProject", c.id, "true")
            /\ UNCHANGED <<uuidCount, given>>
    /\ UNCHANGED <<projects, left, calendar>>

updateProject(id, data) ==
    /\ left > 0
    /\ left' = left - 1
    /\ UNCHANGED calendar
    /\ projects' = Update(projects, id, data)
    /\ last' = Result("updateProject", id, IF MapHas(projects, id) THEN "returns" ELSE "undefined")
    /\ UNCHANGED <<tasks, contacts, budgetItems, calendarEvents, uuidCount, calls, given>>

\* a deleteProject that runs its four sweeps whether or not it removed a project
deleteProjectSweepingAlways(id) ==
    /\ left > 0
    /\ left' = left - 1
    /\ UNCHANGED calendar
    /\ projects' = MapDelete(projects, id)
    /\ tasks' = Sweep(tasks, id)
    /\ contacts' = Sweep(contacts, id)
    /\ budgetItems' = Sweep(budgetItems, id)
    /\ calendarEvents' = Sweep(calendarEvents, id)
    /\ last' = Result("deleteProject", id, IF MapHas(projects, id) THEN "true" ELSE "false")
    /\ UNCHANGED <<uuidCount, calls, given>>

deleteProject(id) ==
    LET deleted == MapHas(projects, id)
    IN  /\ left > 0
        /\ left' = left - 1
        /\ UNCHANGED calendar
        /\ projects' = MapDelete(projects, id)
        /\ IF deleted /\ DeleteProjectAwaits
           THEN /\ calls' = calls \cup {[op |-> "deleteProject", id |-> id, type |-> "",
                                         todo |-> <<>>, created |-> <<>>,
                                         deps |-> Dependents(id)]}
                /\ last' = Result("deleteProject", id, "awaits")
                /\ UNCHANGED <<tasks, contacts, budgetItems, calendarEvents>>
           ELSE /\ tasks' = IF deleted THEN Sweep(tasks, id) ELSE tasks
                /\ contacts' = IF deleted THEN Sweep(contacts, id) ELSE contacts
                /\ budgetItems' = IF deleted THEN Sweep(budgetItems, id) ELSE budgetItems
                /\ calendarEvents' = IF deleted THEN Sweep(calendarEvents, id) ELSE calendarEvents
                /\ last' = Result("deleteProject", id, IF deleted THEN "true" ELSE "false")
                /\ UNCHANGED calls
        /\ UNCHANGED <<uuidCount, given>>

createTask(insertTask) ==
    LET id == randomUUID(uuidCount)
    IN  /\ left > 0
        /\ left' = left - 1
        /\ UNCHANGED calendar
        /\ tasks' = MapSet(tasks, id, NewTask(insertTask, id))
        /\ uuidCount' = uuidCount + 1
        /\ given' = Gave("tasks", <<id>>)
        /\ last' = Result("createTask", id, "returns")
        /\ UNCHANGED <<projects, contacts, budgetItems, calendarEvents, calls>>

updateTask(id, data) ==
    /\ left > 0
    /\ left' = left - 1
    /\ UNCHANGED calendar
    /\ tasks' = Update(tasks, id, data)
    /\ last' = Result("updateTask", id, IF MapHas(tasks, id) THEN "returns" ELSE "undefined")
    /\ UNCHANGED <<projects, contacts, budgetItems, calendarEvents, uuidCount, calls, given>>

deleteTask(id) ==
    /\ left > 0
    /\ left' = left - 1
    /\ UNCHANGED calendar
    /\ tasks' = MapDelete(tasks, id)
    /\ last' = Result("deleteTask", id, IF MapHas(tasks, id) THEN "true" ELSE "false")
    /\ UNCHANGED <<projects, contacts, budgetItems, calendarEvents, uuidCount, calls, given>>

createContact(insert) ==
    LET id == randomUUID(uuidCount)
    IN  /\ left > 0
        /\ left' = left - 1
        /\ UNCHANGED calendar
        /\ contacts' = MapSet(contacts, id, NewRecord(insert, id))
        /\ uuidCount' = uuidCount + 1
        /\ given' = Gave("contacts", <<id>>)
        /\ last' = Result("createContact", id, "returns")
        /\ UNCHANGED <<projects, tasks, budgetItems, calendarEvents, calls>>

updateContact(id, data) ==
    /\ left > 0
    /\ left' = left - 1
    /\ UNCHANGED calendar
    /\ contacts' = Update(contacts, id, data)
    /\ last' = Result("updateContact", id, IF MapHas(contacts, id) THEN "returns" ELSE "undefined")
    /\ UNCHANGED <<projects, tasks, budgetItems, calendarEvents, uuidCount, calls, given>>

deleteContact(id) ==
    /\ left > 0
    /\ left' = left - 1
    /\ UNCHANGED calendar
    /\ contacts' = MapDelete(contacts, id)
    /\ last' = Result("deleteContact", id, IF MapHas(contacts, id) THEN "true" ELSE "false")
    /\ UNCHANGED <<projects, tasks, budgetItems, calendarEvents, uuidCount, calls, given>>

createBudgetItem(insert) ==
    LET id == randomUUID(uuidCount)
    IN  /\ left > 0
        /\ left' = left - 1
        /\ UNCHANGED calendar
        /\ budgetItems' = MapSet(budgetItems, id, NewRecord(insert, id))
        /\ uuidCount' = uuidCount + 1
        /\ given' = Gave("budgetItems", <<id>>)
        /\ last' = Result("createBudgetItem", id, "returns")
        /\ UNCHANGED <<projects, tasks, contacts, calendarEvents, calls>>

updateBudgetItem(id, data) ==
    /\ left > 0
    /\ left' = left - 1
    /\ UNCHANGED calendar
    /\ budgetItems' = Update(budgetItems, id, data)
    /\ last' = Result("updateBudgetItem", id, IF MapHas(budgetItems, id) THEN "returns" ELSE "undefined")
    /\ UNCHANGED <<projects, tasks, contacts, calendarEvents, uuidCount, calls, given>>

deleteBudgetItem(id) ==
    /\ left > 0
    /\ left' = left - 1
    /\ UNCHANGED calendar
    /\ budgetItems' = MapDelete(budgetItems, id)
    /\ last' = Result("deleteBudgetItem", id, IF MapHas(budgetItems, id) THEN "true" ELSE "false")
    /\ UNCHANGED <<projects, tasks, contacts, calendarEvents, uuidCount, calls, given>>

createCalendarEvent(insert) ==
    LET id == randomUUID(uuidCount)
    IN  /\ left > 0
        /\ left' = left - 1
        /\ UNCHANGED calendar
        /\ calendarEvents' = MapSet(calendarEvents, id, NewRecord(insert, id))
        /\ uuidCount' = uuidCount + 1
        /\ given' = Gave("calendarEvents", <<id>>)
        /\ last' = Result("createCalendarEvent", id, "returns")
        /\ UNCHANGED <<projects, tasks, contacts, budgetItems, calls>>

updateCalendarEvent(id, data) ==
    /\ left > 0
    /\ left' = left - 1
    /\ UNCHANGED calendar
    /\ calendarEvents' = Update(calendarEvents, id, data)
    /\ last' = Result("updateCalendarEvent", id, IF MapHas(calendarEvents, id) THEN "returns" ELSE "undefined")
    /\ UNCHANGED <<projects, tasks, contacts, budgetItems, uuidCount, calls, given>>

deleteCalendarEvent(id) ==
    /\ left > 0
    /\ left' = left - 1
    /\ UNCHANGED calendar
    /\ calendarEvents' = MapDelete(calendarEvents, id)
    /\ last' = Result("deleteCalendarEvent", id, IF MapHas(calendarEvents, id) THEN "true" ELSE "false")
    /\ UNCHANGED <<projects, tasks, contacts, budgetItems, uuidCount, calls, given>>

\* -------------------------------------------------------- the store's callers
\* Every method of the store, called one at a time by callers that create blank projects.
Next ==
    \/ \E insertProject \in InsertProjects({"Blank"}) : createProject(insertProject)
    \/ \E id \in Refs("projects") : \E data \in ProjectPatches(id) : updateProject(id, data)
    \/ \E id \in Refs("projects") : deleteProject(id)
    \/ \E insertTask \in InsertTasks : createTask(insertTask)
    \/ \E id \in Refs("tasks") : \E data \in TaskPatches(id) : updateTask(id, data)
    \/ \E id \in Refs("tasks") : deleteTask(id)
    \/ \E insert \in InsertContacts : createContact(insert)
    \/ \E id \in Refs("contacts") : \E data \in ContactPatches(id) : updateContact(id, data)
    \/ \E id \in Refs("contacts") : deleteContact(id)
    \/ \E insert \in InsertBudgetItems : createBudgetItem(insert)
    \/ \E id \in Refs("budgetItems") : \E data \in BudgetItemPatches(id) : updateBudgetItem(id, data)
    \/ \E id \in Refs("budgetItems") : deleteBudgetItem(id)
    \/ \E insert \in InsertCalendarEvents : createCalendarEvent(insert)
    \/ \E id \in Refs("calendarEvents") : \E data \in CalendarEventPatches(id) : updateCalendarEvent(id, data)
    \/ \E id \in Refs("calendarEvents") : deleteCalendarEvent(id)

Init == Start(MaxOps)

Spec == Init /\ [][Next]_vars

\* The project and task methods, called by callers whose calls interleave at the awaits
\* of createProject, for every project type.
TemplateNext ==
    \/ \E insertProject \in InsertProjects(ProjectTypes) : createProject(insertProject)
    \/ \E c \in calls : Resume(c)
    \/ \E id \in Refs("projects") : \E data \in ProjectPatches(id) : updateProject(id, data)
    \/ \E id \in Refs("projects") : deleteProject(id)
    \/ \E insertTask \in InsertTasks : createTask(insertTask)
    \/ \E id \in Refs("tasks") : \E data \in TaskPatches(id) : updateTask(id, data)
    \/ \E id \in Refs("tasks") : deleteTask(id)

TemplateInit == Start(MaxInterleaved)

TemplateSpec == TemplateInit /\ [][TemplateNext]_vars

\* The create and delete methods of every kind, for every project type.
CreateDeleteNext ==
    \/ \E insertProject \in InsertProjects(ProjectTypes) : createProject(insertProject)
    \/ \E c \in calls : Resume(c)
    \/ \E id \in Refs("projects") : deleteProject(id)
    \/ \E insertTask \in InsertTasks : createTask(insertTask)
    \/ \E id \in Refs("tasks") : deleteTask(id)
    \/ \E insert \in InsertContacts : createContact(insert)
    \/ \E id \in Refs("contacts") : deleteContact(id)
    \/ \E insert \in InsertBudgetItems : createBudgetItem(insert)
    \/ \E id \in Refs("budgetItems") : deleteBudgetItem(id)
    \/ \E insert \in InsertCalendarEvents : createCalendarEvent(insert)
    \/ \E id \in Refs("calendarEvents") : deleteCalendarEvent(id)

CreateDeleteInit == Start(MaxCreateDelete)

CreateDeleteSpec == CreateDeleteInit /\ [][CreateDeleteNext]_vars

\* ------------------------------------------------------- the HTTP boundary
\* new Date(s) for a string s of a request body: the instant it names, in hours since
\* 2025-01-01 00:00, or an Invalid Date
NewDate(s) ==
    CASE s = "2025-06-01" -> 151 * 24
      [] s = "2025-07-15" -> 195 * 24
      [] OTHER -> NaN

\* req.body.f ? new Date(req.body.f) : undefined
CoerceDate(body, f) ==
    IF f \in DOMAIN body /\ body[f] # "" THEN NewDate(body[f]) ELSE Undefined

\* the keys of the zod object schemas (createInsertSchema(table).omit(...))
insertProjectSchema ==
    {"name", "type", "status", "clientName", "shootDate", "budget", "description"}
\* an update schema of projects that has no status key
updateProjectSchemaWithoutStatus == insertProjectSchema \ {"status"}

updateProjectSchema == insertProjectSchema
insertTaskSchema == {"projectId", "title", "section", "status", "assignee", "dueDate"}
\* an update schema of tasks without its omit({ projectId: true })
updateTaskSchemaPartial == insertTaskSchema
updateTaskSchema == insertTaskSchema \ {"projectId"}
insertContactSchema == {"projectId", "name", "role", "email", "phone", "notes"}
updateContactSchema == insertContactSchema \ {"projectId"}
insertBudgetItemSchema ==
    {"projectId", "description", "plannedCost", "actualCost", "paymentStatus", "category"}
updateBudgetItemSchema == insertBudgetItemSchema \ {"projectId"}
insertCalendarEventSchema ==
    {"projectId", "title", "type", "startDate", "endDate", "description", "location"}
updateCalendarEventSchema == insertCalendarEventSchema \ {"projectId"}

\* the columns of a table that are notNull() and carry no default: the keys an insert
\* schema requires
RequiredOf(schema) ==
    CASE schema = insertProjectSchema -> {"name", "type"}
      [] schema = insertTaskSchema -> {"projectId", "title"}
      [] schema = insertContactSchema -> {"projectId", "name", "role"}
      [] schema = insertBudgetItemSchema -> {"projectId", "description"}
      [] schema = insertCalendarEventSchema -> {"projectId", "title", "type", "startDate"}

\* the timestamp() columns
DateFields == {"shootDate", "dueDate", "startDate", "endDate"}

\* schema.parse(data) does not throw: every required key is present and defined, and every
\* date is a valid Date.  (The request bodies drawn below carry strings and integers where
\* the columns are text and integer.)
Parses(schema, required, data) ==
    /\ \A f \in required :
          /\ f \in DOMAIN data
          /\ f \in DateFields => data[f] # Undefined
    /\ \A f \in (DateFields \cap schema) \cap DOMAIN data : data[f] # NaN

\* the value of schema.parse(data): the keys of the schema that are in data, those whose
\* value is undefined included; every other key is stripped
Parsed(schema, data) == [f \in schema \cap DOMAIN data |-> data[f]]

\* the tasks createProject stores for a template, when no other call runs between its awaits
TemplateTasks(projectId, items, n) ==
    [i \in 1..Len(items) |->
        Entry(randomUUID(n + i - 1),
              NewTask(TemplateTask(projectId, items[i]), randomUUID(n + i - 1)))]

Response(route, id, body, status) == [op |-> route, id |-> id, res |-> status, body |-> body]

NoBody == <<>>

\* POST /api/projects
PostProjects(reqBody) ==
    LET body == Spread(reqBody, [shootDate |-> CoerceDate(reqBody, "shootDate")])
        validatedData == Parsed(insertProjectSchema, body)
        id == randomUUID(uuidCount)
        template == projectTemplates(validatedData.type)
        runs == validatedData.type # "" /\ validatedData.type # "Blank"
        items == IF runs /\ template.kind = "array" THEN template.items ELSE <<>>
        created == TemplateTasks(id, items, uuidCount + 1)
    IN  /\ left > 0
        /\ left' = left - 1
        /\ UNCHANGED calendar
        /\ IF ~Parses(insertProjectSchema, RequiredOf(insertProjectSchema), body)
           THEN /\ last' = Response("POST /api/projects", 0, reqBody, "400")
                /\ UNCHANGED <<projects, tasks, uuidCount, given>>
           ELSE /\ projects' = MapSet(projects, id, NewProject(validatedData, id))
                /\ tasks' = tasks \o created
                /\ uuidCount' = uuidCount + 1 + Len(items)
                /\ given' = [given EXCEPT !.projects = Append(@, id),
                                          !.tasks = @ \o [i \in 1..Len(created) |-> created[i].key]]
                /\ last' = Response("POST /api/projects", id, reqBody,
                                    IF runs /\ template.kind = "inherited" THEN "400" ELSE "201")
        /\ UNCHANGED <<contacts, budgetItems, calendarEvents, calls>>

\* GET /api/projects/:id
GetProjectsId(id) ==
    /\ left > 0
    /\ left' = left - 1
    /\ UNCHANGED calendar
    /\ last' = Response("GET /api/projects/:id", id, NoBody,
                        IF getProjectUndefined(id) THEN "404" ELSE "200")
    /\ UNCHANGED <<projects, tasks, contacts, budgetItems, calendarEvents, uuidCount, calls,
                   given>>

\* PATCH /api/projects/:id
PatchProjectsId(id, reqBody) ==
    LET body == Spread(reqBody, [shootDate |-> CoerceDate(reqBody, "shootDate")])
        validatedData == Parsed(updateProjectSchema, body)
    IN  /\ left > 0
        /\ left' = left - 1
        /\ UNCHANGED calendar
        /\ IF ~Parses(updateProjectSchema, {}, body)
           THEN /\ last' = Response("PATCH /api/projects/:id", id, reqBody, "400")
                /\ UNCHANGED projects
           ELSE /\ projects' = Update(projects, id, validatedData)
                /\ last' = Response("PATCH /api/projects/:id", id, reqBody,
                                    IF MapHas(projects, id) THEN "200" ELSE "404")
        /\ UNCHANGED <<tasks, contacts, budgetItems, calendarEvents, uuidCount, calls, given>>

\* DELETE /api/projects/:id
DeleteProjectsId(id) ==
    LET deleted == MapHas(projects, id)
    IN  /\ left > 0
        /\ left' = left - 1
        /\ UNCHANGED calendar
        /\ projects' = MapDelete(projects, id)
        /\ tasks' = IF deleted THEN Sweep(tasks, id) ELSE tasks
        /\ contacts' = IF deleted THEN Sweep(contacts, id) ELSE contacts
        /\ budgetItems' = IF deleted THEN Sweep(budgetItems, id) ELSE budgetItems
        /\ calendarEvents' = IF deleted THEN Sweep(calendarEvents, id) ELSE calendarEvents
        /\ last' = Response("DELETE /api/projects/:id", id, NoBody,
                            IF deleted THEN "204" ELSE "404")
        /\ UNCHANGED <<uuidCount, calls, given>>

\* POST /api/tasks
PostTasks(reqBody) ==
    LET body == Spread(reqBody, [dueDate |-> CoerceDate(reqBody, "dueDate")])
        validatedData == Parsed(insertTaskSchema, body)
        id == randomUUID(uuidCount)
    IN  /\ left > 0
        /\ left' = left - 1
        /\ UNCHANGED calendar
        /\ IF ~Parses(insertTaskSchema, RequiredOf(insertTaskSchema), body)
           THEN /\ last' = Response("POST /api/tasks", 0, reqBody, "400")
                /\ UNCHANGED <<tasks, uuidCount, given>>
           ELSE /\ tasks' = MapSet(tasks, id, NewTask(validatedData, id))
                /\ uuidCount' = uuidCount + 1
                /\ given' = Gave("tasks", <<id>>)
                /\ last' = Response("POST /api/tasks", id, reqBody, "201")
        /\ UNCHANGED <<projects, contacts, budgetItems, calendarEvents, calls>>

\* PATCH /api/tasks/:id
PatchTasksId(id, reqBody) ==
    LET body == Spread(reqBody, [dueDate |-> CoerceDate(reqBody, "dueDate")])
        validatedData == Parsed(updateTaskSchema, body)
    IN  /\ left > 0
        /\ left' = left - 1
        /\ UNCHANGED calendar
        /\ IF ~Parses(updateTaskSchema, {}, body)
           THEN /\ last' = Response("PATCH /api/tasks/:id", id, reqBody, "400")
                /\ UNCHANGED tasks
           ELSE /\ tasks' = Update(tasks, id, validatedData)
                /\ last' = Response("PATCH /api/tasks/:id", id, reqBody,
                                    IF MapHas(tasks, id) THEN "200" ELSE "404")
        /\ UNCHANGED <<projects, contacts, budgetItems, calendarEvents, uuidCount, calls, given>>

\* DELETE /api/tasks/:id
DeleteTasksId(id) ==
    /\ left > 0
    /\ left' = left - 1
    /\ UNCHANGED calendar
    /\ tasks' = MapDelete(tasks, id)
    /\ last' = Response("DELETE /api/tasks/:id", id, NoBody,
                        IF MapHas(tasks, id) THEN "204" ELSE "404")
    /\ UNCHANGED <<projects, contacts, budgetItems, calendarEvents, uuidCount, calls, given>>

\* POST /api/contacts
PostContacts(reqBody) ==
    LET validatedData == Parsed(insertContactSchema, reqBody)
        id == randomUUID(uuidCount)
    IN  /\ left > 0
        /\ left' = left - 1
        /\ UNCHANGED calendar
        /\ IF ~Parses(insertContactSchema, RequiredOf(insertContactSchema), reqBody)
           THEN /\ last' = Response("POST /api/contacts", 0, reqBody, "400")
                /\ UNCHANGED <<contacts, uuidCount, given>>
           ELSE /\ contacts' = MapSet(contacts, id, NewRecord(validatedData, id))
                /\ uuidCount' = uuidCount + 1
                /\ given' = Gave("contacts", <<id>>)
                /\ last' = Response("POST /api/contacts", id, reqBody, "201")
        /\ UNCHANGED <<projects, tasks, budgetItems, calendarEvents, calls>>

\* PATCH /api/contacts/:id
PatchContactsId(id, reqBody) ==
    LET validatedData == Parsed(updateContactSchema, reqBody)
    IN  /\ left > 0
        /\ left' = left - 1
        /\ UNCHANGED calendar
        /\ IF ~Parses(updateContactSchema, {}, reqBody)
           THEN /\ last' = Response("PATCH /api/contacts/:id", id, reqBody, "400")
                /\ UNCHANGED contacts
           ELSE /\ contacts' = Update(contacts, id, validatedData)
                /\ last' = Response("PATCH /api/contacts/:id", id, reqBody,
                                    IF MapHas(contacts, id) THEN "200" ELSE "404")
        /\ UNCHANGED <<projects, tasks, budgetItems, calendarEvents, uuidCount, calls, given>>

\* DELETE /api/contacts/:id
DeleteContactsId(id) ==
    /\ left > 0
    /\ left' = left - 1
    /\ UNCHANGED calendar
    /\ contacts' = MapDelete(contacts, id)
    /\ last' = Response("DELETE /api/contacts/:id", id, NoBody,
                        IF MapHas(contacts, id) THEN "204" ELSE "404")
    /\ UNCHANGED <<projects, tasks, budgetItems, calendarEvents, uuidCount, calls, given>>

\* POST /api/budget-items
PostBudgetItems(reqBody) ==
    LET validatedData == Parsed(insertBudgetItemSchema, reqBody)
        id == randomUUID(uuidCount)
    IN  /\ left > 0
        /\ left' = left - 1
        /\ UNCHANGED calendar
        /\ IF ~Parses(insertBudgetItemSchema, RequiredOf(insertBudgetItemSchema), reqBody)
           THEN /\ last' = Response("POST /api/budget-items", 0, reqBody, "400")
                /\ UNCHANGED <<budgetItems, uuidCount, given>>
           ELSE /\ budgetItems' = MapSet(budgetItems, id, NewRecord(validatedData, id))
                /\ uuidCount' = uuidCount + 1
                /\ given' = Gave("budgetItems", <<id>>)
                /\ last' = Response("POST /api/budget-items", id, reqBody, "201")
        /\ UNCHANGED <<projects, tasks, contacts, calendarEvents, calls>>

\* PATCH /api/budget-items/:id
PatchBudgetItemsId(id, reqBody) ==
    LET validatedData == Parsed(updateBudgetItemSchema, reqBody)
    IN  /\ left > 0
        /\ left' = left - 1
        /\ UNCHANGED calendar
        /\ IF ~Parses(updateBudgetItemSchema, {}, reqBody)
           THEN /\ last' = Response("PATCH /api/budget-items/:id", id, reqBody, "400")
                /\ UNCHANGED budgetItems
           ELSE /\ budgetItems' = Update(budgetItems, id, validatedData)
                /\ last' = Response("PATCH /api/budget-items/:id", id, reqBody,
                                    IF MapHas(budgetItems, id) THEN "200" ELSE "404")
        /\ UNCHANGED <<projects, tasks, contacts, calendarEvents, uuidCount, calls, given>>

\* DELETE /api/budget-items/:id
DeleteBudgetItemsId(id) ==
    /\ left > 0
    /\ left' = left - 1
    /\ UNCHANGED calendar
    /\ budgetItems' = MapDelete(budgetItems, id)
    /\ last' = Response("DELETE /api/budget-items/:id", id, NoBody,
                        IF MapHas(budgetItems, id) THEN "204" ELSE "404")
    /\ UNCHANGED <<projects, tasks, contacts, calendarEvents, uuidCount, calls, given>>

\* POST /api/calendar-events
PostCalendarEvents(reqBody) ==
    LET body == Spread(reqBody, [startDate |-> CoerceDate(reqBody, "startDate"),
                                 endDate |-> CoerceDate(reqBody, "endDate")])
        validatedData == Parsed(insertCalendarEventSchema, body)
        id == randomUUID(uuidCount)
    IN  /\ left > 0
        /\ left' = left - 1
        /\ UNCHANGED calendar
        /\ IF ~Parses(insertCalendarEventSchema, RequiredOf(insertCalendarEventSchema), body)
           THEN /\ last' = Response("POST /api/calendar-events", 0, reqBody, "400")
                /\ UNCHANGED <<calendarEvents, uuidCount, given>>
           ELSE /\ calendarEvents' = MapSet(calendarEvents, id, NewRecord(validatedData, id))
                /\ uuidCount' = uuidCount + 1
                /\ given' = Gave("calendarEvents", <<id>>)
                /\ last' = Response("POST /api/calendar-events", id, reqBody, "201")
        /\ UNCHANGED <<projects, tasks, contacts, budgetItems, calls>>

\* PATCH /api/calendar-events/:id
PatchCalendarEventsId(id, reqBody) ==
    LET body == Spread(reqBody, [startDate |-> CoerceDate(reqBody, "startDate"),
                                 endDate |-> CoerceDate(reqBody, "endDate")])
        validatedData == Parsed(updateCalendarEventSchema, body)
    IN  /\ left > 0
        /\ left' = left - 1
        /\ UNCHANGED calendar
        /\ IF ~Parses(updateCalendarEventSchema, {}, body)
           THEN /\ last' = Response("PATCH /api/calendar-events/:id", id, reqBody, "400")
                /\ UNCHANGED calendarEvents
           ELSE /\ calendarEvents' = Update(calendarEvents, id, validatedData)
                /\ last' = Response("PATCH /api/calendar-events/:id", id, reqBody,
                                    IF MapHas(calendarEvents, id) THEN "200" ELSE "404")
        /\ UNCHANGED <<projects, tasks, contacts, budgetItems, uuidCount, calls, given>>

\* DELETE /api/calendar-events/:id
DeleteCalendarEventsId(id) ==
    /\ left > 0
    /\ left' = left - 1
    /\ UNCHANGED calendar
    /\ calendarEvents' = MapDelete(calendarEvents, id)
    /\ last' = Response("DELETE /api/calendar-events/:id", id, NoBody,
                        IF MapHas(calendarEvents, id) THEN "204" ELSE "404")
    /\ UNCHANGED <<projects, tasks, contacts, budgetItems, uuidCount, calls, given>>

\* ------------------------------------------------------------ request bodies
PostProjectBodies ==
    {[name |-> "Shoot", type |-> t] : t \in {"Portrait", "Blank", "Studio", "constructor"}}
        \cup {[name |-> "Shoot", type |-> "Blank", shootDate |-> d] : d \in {"2025-06-01", "soon"}}
        \cup {[type |-> "Blank"]}

PatchProjectBodies ==
    {[status |-> "Delivered"], [shootDate |-> "2025-07-15"], [shootDate |-> "soon"],
     [budget |-> 0 - 1],
     [name |-> "Renamed", id |-> 0, createdAt |-> "2020-01-01"]}

PostTaskBodies ==
    {[projectId |-> p, title |-> "Call client"] : p \in ProjectRefs}
        \cup {[projectId |-> p, title |-> "Call client", dueDate |-> "2025-06-01"] : p \in ProjectRefs}
        \cup {[title |-> "Call client"]}

PatchTaskBodies ==
    {[status |-> "Completed"], [dueDate |-> "2025-07-15"], [dueDate |-> "soon"]}
        \cup {[status |-> "In Progress", projectId |-> p] : p \in ProjectRefs}

PostContactBodies ==
    {[projectId |-> p, name |-> "Ana", role |-> "Client"] : p \in ProjectRefs}
        \cup {[name |-> "Ana"]}

PatchContactBodies ==
    {[role |-> "Assistant"]}
        \cup {[role |-> "Venue Coordinator", projectId |-> p] : p \in ProjectRefs}

PostBudgetItemBodies ==
    {[projectId |-> p, description |-> "Studio", plannedCost |-> 100] : p \in ProjectRefs}
        \cup {[description |-> "Studio"]}
        \cup {[projectId |-> 0, description |-> "Refund", plannedCost |-> 0 - 50]}

PatchBudgetItemBodies ==
    {[paymentStatus |-> "Paid"], [actualCost |-> 0 - 20]}
        \cup {[actualCost |-> 120, projectId |-> p] : p \in ProjectRefs}

PostCalendarEventBodies ==
    {[projectId |-> p, title |-> "Kickoff", type |-> "Meeting", startDate |-> "2025-06-01"] :
        p \in ProjectRefs}
        \cup {[projectId |-> p, title |-> "Kickoff", type |-> "Meeting",
               startDate |-> "2025-06-01", endDate |-> "2025-07-15"] : p \in ProjectRefs}
        \cup {[projectId |-> 0, title |-> "Kickoff", type |-> "Meeting"]}

PatchCalendarEventBodies ==
    {[title |-> "Review"], [endDate |-> "2025-07-15"], [startDate |-> "soon"]}
        \cup {[location |-> "Studio", projectId |-> p] : p \in ProjectRefs}

\* The requests of the HTTP boundary, served one at a time: a handler that is waiting on
\* the store is resumed before the next request is dispatched.
RouteNext ==
    \/ \E reqBody \in PostProjectBodies : PostProjects(reqBody)
    \/ \E id \in Refs("projects") : GetProjectsId(id)
    \/ \E id \in Refs("projects") : \E reqBody \in PatchProjectBodies : PatchProjectsId(id, reqBody)
    \/ \E id \in Refs("projects") : DeleteProjectsId(id)
    \/ \E reqBody \in PostTaskBodies : PostTasks(reqBody)
    \/ \E id \in Refs("tasks") : \E reqBody \in PatchTaskBodies : PatchTasksId(id, reqBody)
    \/ \E id \in Refs("tasks") : DeleteTasksId(id)
    \/ \E reqBody \in PostContactBodies : PostContacts(reqBody)
    \/ \E id \in Refs("contacts") : \E reqBody \in PatchContactBodies : PatchContactsId(id, reqBody)
    \/ \E id \in Refs("contacts") : DeleteContactsId(id)
    \/ \E reqBody \in PostBudgetItemBodies : PostBudgetItems(reqBody)
    \/ \E id \in Refs("budgetItems") : \E reqBody \in PatchBudgetItemBodies : PatchBudgetItemsId(id, reqBody)
    \/ \E id \in Refs("budgetItems") : DeleteBudgetItemsId(id)
    \/ \E reqBody \in PostCalendarEventBodies : PostCalendarEvents(reqBody)
    \/ \E id \in Refs("calendarEvents") : \E reqBody \in PatchCalendarEventBodies : PatchCalendarEventsId(id, reqBody)
    \/ \E id \in Refs("calendarEvents") : DeleteCalendarEventsId(id)

RouteInit == Start(MaxRequests)

RouteSpec == RouteInit /\ [][RouteNext]_vars

\* ------------------------------------------------------------ dates (date-fns)
\* An instant is a number of hours since 2025-01-01 00:00, a Wednesday, in the time zone
\* of the browser; a day is a number of days since that date.
Years == 2024..2027

IsLeap(y) == (y % 4 = 0 /\ y % 100 # 0) \/ y % 400 = 0

YearLength(y) == IF IsLeap(y) THEN 366 ELSE 365

MonthLength(y, m) ==
    CASE m \in {4, 6, 9, 11} -> 30
      [] m = 2 -> (IF IsLeap(y) THEN 29 ELSE 28)
      [] OTHER -> 31

RECURSIVE DaysBeforeMonth(_, _)
DaysBeforeMonth(y, m) == IF m = 1 THEN 0 ELSE DaysBeforeMonth(y, m - 1) + MonthLength(y, m - 1)

RECURSIVE DaysBeforeYear(_)
DaysBeforeYear(y) ==
    IF y = 2025 THEN 0
    ELSE IF y > 2025 THEN DaysBeforeYear(y - 1) + YearLength(y - 1)
    ELSE DaysBeforeYear(y + 1) - YearLength(y)

\* the day of a calendar date
DayNumber(y, m, d) == DaysBeforeYear(y) + DaysBeforeMonth(y, m) + d - 1

\* the calendar date of a day: getFullYear(), getMonth() + 1, getDate()
CivilOf(day) ==
    CHOOSE c \in [y : Years, m : 1..12, d : 1..31] :
        c.d <= MonthLength(c.y, c.m) /\ DayNumber(c.y, c.m, c.d) = day

DayOf(t) == t \div 24

HourOf(t) == t % 24

\* getDay(): 0 is Sunday
getDay(t) == (DayOf(t) + 3) % 7

startOfDay(t) == DayOf(t) * 24

isSameDay(a, b) == startOfDay(a) = startOfDay(b)

\* startOfWeek(t), the week starting on Sunday
startOfWeek(t) == (DayOf(t) - getDay(t)) * 24

\* endOfWeek(t): the last instant of the Saturday
endOfWeek(t) == (DayOf(t) + (6 - getDay(t))) * 24 + 23

startOfMonth(t) ==
    LET c == CivilOf(DayOf(t)) IN DayNumber(c.y, c.m, 1) * 24

endOfMonth(t) ==
    LET c == CivilOf(DayOf(t)) IN DayNumber(c.y, c.m, MonthLength(c.y, c.m)) * 24 + 23

\* eachDayOfInterval({ start, end }): the start of every day from start's to end's
eachDayOfInterval(start, end) ==
    [i \in 1..(DayOf(end) - DayOf(start) + 1) |-> (DayOf(start) + i - 1) * 24]

addDays(t, n) == t + 24 * n

addWeeks(t, n) == addDays(t, 7 * n)

\* addMonths(t, n): the same day of the month n months on, the month's last day when the
\* month is shorter, at the same time of day
addMonths(t, n) ==
    LET c == CivilOf(DayOf(t))
        months == c.y * 12 + (c.m - 1) + n
        y == months \div 12
        m == (months % 12) + 1
        d == IF c.d <= MonthLength(y, m) THEN c.d ELSE MonthLength(y, m)
    IN  DayNumber(y, m, d) * 24 + HourOf(t)

\* ------------------------------------------------------------ the Calendar page
\* res.json(record): a Date becomes its ISO string, a property that is undefined is left out
ToJSON(record) ==
    [f \in {g \in DOMAIN record : g \in DateFields \cup {"createdAt"} => record[g] # Undefined}
        |-> IF f \in DateFields \cup {"createdAt"} THEN [iso |-> record[f]] ELSE record[f]]

\* new Date(s) for the ISO string of a response
ParseISO(s) == s.iso

\* the data of the three queries: GET /api/calendar-events, /api/tasks, /api/projects
allEvents == [i \in 1..Len(calendarEvents) |-> ToJSON(calendarEvents[i].val)]
allTasks == [i \in 1..Len(tasks) |-> ToJSON(tasks[i].val)]
allProjects == [i \in 1..Len(projects) |-> ToJSON(projects[i].val)]

DeadlineItem(task) ==
    [id |-> task.id, type |-> "Deadline", title |-> task.title, startDate |-> task.dueDate,
     projectId |-> task.projectId]

\* a shoot item that takes its projectId from the project record, which has none
PhotoshootItemByProjectId(project) ==
    [id |-> project.id, type |-> "Photoshoot", title |-> project.name,
     startDate |-> project.shootDate, projectId |-> Undefined]

PhotoshootItem(project) ==
    [id |-> project.id, type |-> "Photoshoot", title |-> project.name,
     startDate |-> project.shootDate, projectId |-> project.id]

MapSeq(Op(_), seq) == [i \in 1..Len(seq) |-> Op(seq[i])]

\* the items of a date without the deadlines of completed tasks
getAllEventsForDateOpenTasks(date) ==
    LET events == SelectSeq(allEvents,
                      LAMBDA event : /\ "startDate" \in DOMAIN event
                                     /\ isSameDay(ParseISO(event.startDate), date))
        taskDeadlines ==
            MapSeq(DeadlineItem,
                   SelectSeq(allTasks,
                      LAMBDA task : /\ "dueDate" \in DOMAIN task
                                    /\ task.status # "Completed"
                                    /\ isSameDay(ParseISO(task.dueDate), date)))
        photoShoots ==
            MapSeq(PhotoshootItem,
                   SelectSeq(allProjects,
                      LAMBDA project : /\ "shootDate" \in DOMAIN project
                                       /\ isSameDay(ParseISO(project.shootDate), date)))
    IN  events \o taskDeadlines \o photoShoots

getAllEventsForDate(date) ==
    LET events == SelectSeq(allEvents,
                      LAMBDA event : /\ "startDate" \in DOMAIN event
                                     /\ isSameDay(ParseISO(event.startDate), date))
        taskDeadlines ==
            MapSeq(DeadlineItem,
                   SelectSeq(allTasks,
                      LAMBDA task : /\ "dueDate" \in DOMAIN task
                                    /\ isSameDay(ParseISO(task.dueDate), date)))
        photoShoots ==
            MapSeq(PhotoshootItem,
                   SelectSeq(allProjects,
                      LAMBDA project : /\ "shootDate" \in DOMAIN project
                                       /\ isSameDay(ParseISO(project.shootDate), date)))
    IN  events \o taskDeadlines \o photoShoots

\* new Date(event.startDate).getTime()
TimeOf(event) == ParseISO(event.startDate)

\* sorted with x put behind the last item that does not come after it
InsertByStartDate(sorted, x) ==
    LET before == {i \in 1..Len(sorted) : TimeOf(sorted[i]) <= TimeOf(x)}
        k == IF before = {} THEN 0 ELSE CHOOSE i \in before : \A j \in before : j <= i
    IN  SubSeq(sorted, 1, k) \o <<x>> \o SubSeq(sorted, k + 1, Len(sorted))

RECURSIVE SortFrom(_, _)
SortFrom(sorted, rest) ==
    IF rest = <<>> THEN sorted ELSE SortFrom(InsertByStartDate(sorted, Head(rest)), Tail(rest))

\* a sort that compares b with a
sortByStartDateDescending(events) ==
    LET RECURSIVE Rev(_)
        Rev(q) == IF q = <<>> THEN <<>> ELSE Append(Rev(Tail(q)), Head(q))
    IN  Rev(SortFrom(<<>>, events))

\* events.sort((a, b) => new Date(a.startDate).getTime() - new Date(b.startDate).getTime()),
\* Array.prototype.sort being stable
sortByStartDate(events) == SortFrom(<<>>, events)

\* the items the day view lists, in the order of the page
renderDayView == sortByStartDate(getAllEventsForDate(currentDate))

\* a week that starts on Monday (weekStartsOn: 1)
weekDaysFromMonday ==
    eachDayOfInterval(startOfWeek(currentDate) + 24, endOfWeek(currentDate) + 24)

\* the seven days of the week view
weekDays == eachDayOfInterval(startOfWeek(currentDate), endOfWeek(currentDate))

\* the week view: for each day its items, in the order of the page
renderWeekView ==
    [i \in 1..Len(weekDays) |-> [day |-> weekDays[i], events |-> getAllEventsForDate(weekDays[i])]]

\* the days of the month alone, without the days that complete its first and last weeks
monthDaysOfMonth == eachDayOfInterval(startOfMonth(currentDate), endOfMonth(currentDate))

\* the days of the month view
monthDays ==
    eachDayOfInterval(startOfWeek(startOfMonth(currentDate)), endOfWeek(endOfMonth(currentDate)))

\* the month view: for each day its first two items and the number of the others
renderMonthView ==
    [i \in 1..Len(monthDays) |->
        LET events == getAllEventsForDate(monthDays[i])
        IN  [day |-> monthDays[i],
             events |-> SubSeq(events, 1, IF Len(events) > 2 THEN 2 ELSE Len(events)),
             more |-> IF Len(events) > 2 THEN Len(events) - 2 ELSE 0]]

\* the records the page may find in the store
ProjectPool ==
    <<Entry(1, [id |-> 1, name |-> "Lake wedding", type |-> "Blank", status |-> "Planning",
                createdAt |-> Now, shootDate |-> 154 * 24 + 10]),
      Entry(2, [id |-> 2, name |-> "Studio portraits", type |-> "Blank", status |-> "Planning",
                createdAt |-> Now, shootDate |-> 154 * 24 + 8])>>

TaskPool ==
    <<Entry(3, [id |-> 3, projectId |-> 1, title |-> "Deliver gallery", section |-> "General",
                status |-> "To Do", createdAt |-> Now, dueDate |-> 154 * 24 + 23]),
      Entry(4, [id |-> 4, projectId |-> 2, title |-> "Pack equipment", section |-> "General",
                status |-> "Completed", createdAt |-> Now, dueDate |-> 154 * 24 + 8]),
      Entry(5, [id |-> 5, projectId |-> 1, title |-> "Call client", section |-> "General",
                status |-> "To Do", createdAt |-> Now, dueDate |-> Undefined])>>

CalendarEventPool ==
    <<Entry(6, [id |-> 6, projectId |-> 1, title |-> "Review", type |-> "Meeting",
                startDate |-> 154 * 24 + 15, endDate |-> Undefined]),
      Entry(7, [id |-> 7, projectId |-> 2, title |-> "Kickoff", type |-> "Meeting",
                startDate |-> 154 * 24 + 8, endDate |-> 154 * 24 + 9]),
      Entry(8, [id |-> 8, projectId |-> 2, title |-> "Proofs due", type |-> "Deadline",
                startDate |-> 157 * 24])>>

\* the entries of pool whose keys are in ids
Stored(pool, ids) == SelectSeq(pool, LAMBDA e : e.key \in ids)

\* new Date() when the page is opened or Today is clicked
Todays == {151 * 24, 154 * 24 + 9, 157 * 24 + 23}

\* the page is opened on a store that holds some of the records
CalendarInit ==
    /\ \E ids \in SUBSET Keys(ProjectPool) : projects = Stored(ProjectPool, ids)
    /\ \E ids \in SUBSET Keys(TaskPool) : tasks = Stored(TaskPool, ids)
    /\ \E ids \in SUBSET Keys(CalendarEventPool) : calendarEvents = Stored(CalendarEventPool, ids)
    /\ contacts = <<>>
    /\ budgetItems = <<>>
    /\ uuidCount = 8
    /\ calls = {}
    /\ left = MaxClicks
    /\ given = [projects |-> <<1, 2>>, tasks |-> <<3, 4, 5>>, contacts |-> <<>>,
                budgetItems |-> <<>>, calendarEvents |-> <<6, 7, 8>>]
    /\ last = Result("Calendar", 0, "renders")
    /\ currentDate \in Todays
    /\ view = "month"

store == <<projects, tasks, contacts, budgetItems, calendarEvents, uuidCount, calls, given>>

navigateDate(direction) ==
    /\ left > 0
    /\ left' = left - 1
    /\ currentDate' =
          (IF view = "month"
           THEN (IF direction = "prev" THEN addMonths(currentDate, 0 - 1)
                 ELSE addMonths(currentDate, 1))
           ELSE IF view = "week"
           THEN (IF direction = "prev" THEN addWeeks(currentDate, 0 - 1)
                 ELSE addWeeks(currentDate, 1))
           ELSE (IF direction = "prev" THEN addDays(currentDate, 0 - 1)
                 ELSE addDays(currentDate, 1)))
    /\ last' = Result("navigateDate", 0, direction)
    /\ UNCHANGED <<store, view>>

\* the Today button: setCurrentDate(new Date())
Today(now) ==
    /\ left > 0
    /\ left' = left - 1
    /\ currentDate' = now
    /\ last' = Result("Today", 0, "renders")
    /\ UNCHANGED <<store, view>>

\* the tabs: setView(v)
setView(v) ==
    /\ left > 0
    /\ left' = left - 1
    /\ view' = v
    /\ last' = Result("setView", 0, v)
    /\ UNCHANGED <<store, currentDate>>

CalendarNext ==
    \/ \E direction \in {"prev", "next"} : navigateDate(direction)
    \/ \E now \in Todays : Today(now)
    \/ \E v \in {"month", "week", "day"} : setView(v)

CalendarSpec == CalendarInit /\ [][CalendarNext]_vars

\* ------------------------------------------------------- the budget of a project
\* A JavaScript number: an integer, or NaN
Num(n) == [nan |-> FALSE, n |-> n]

NotANumber == [nan |-> TRUE, n |-> 0]

\* item[property] as an operand of +: a property the item lacks is undefined, and
\* undefined converts to NaN
Operand(item, property) ==
    IF property \in DOMAIN item THEN Num(item[property]) ELSE NotANumber

Plus(a, b) == IF a.nan \/ b.nan THEN NotANumber ELSE Num(a.n + b.n)

Minus(a, b) == IF a.nan \/ b.nan THEN NotANumber ELSE Num(a.n - b.n)

\* items.reduce((sum, item) => sum + item[property], sum)
RECURSIVE reduce(_, _, _)
reduce(items, property, sum) ==
    IF items = <<>> THEN sum
    ELSE reduce(Tail(items), property, Plus(sum, Operand(Head(items), property)))

\* the data of the queries of the project page: GET /api/projects/:id and
\* GET /api/projects/:id/budget
projectQuery(projectId) == ToJSON(MapGet(projects, projectId))

budgetQuery(projectId) == MapSeq(ToJSON, getBudgetItemsByProject(projectId))

\* project.budget || 0
BudgetOrZero(project) ==
    IF "budget" \in DOMAIN project /\ project.budget # 0 THEN project.budget ELSE 0

\* the budget snapshot of the project page, and the budget it hands to the tracker
ProjectDetail(projectId) ==
    LET project == projectQuery(projectId)
        items == budgetQuery(projectId)
        totalPlanned == reduce(items, "plannedCost", Num(0))
        totalActual == reduce(items, "actualCost", Num(0))
    IN  [totalPlanned |-> totalPlanned,
         totalActual |-> totalActual,
         profitLoss |-> Minus(Num(BudgetOrZero(project)), totalActual),
         projectBudget |-> BudgetOrZero(project)]

\* ((profitLoss / projectBudget) * 100).toFixed(1), in tenths of a percent
Margin(profitLoss, projectBudget) ==
    IF profitLoss.nan THEN NotANumber
    ELSE Num((2000 * profitLoss.n + projectBudget) \div (2 * projectBudget))

\* a tracker that reports a margin of 0.0% for a project without a budget
BudgetTrackerZeroPercent(items, projectBudget) ==
    LET totalPlanned == reduce(items, "plannedCost", Num(0))
        totalActual == reduce(items, "actualCost", Num(0))
        profitLoss == Minus(Num(projectBudget), totalActual)
    IN  [totalPlanned |-> totalPlanned,
         totalActual |-> totalActual,
         profitLoss |-> profitLoss,
         margin |-> IF projectBudget > 0
                    THEN [shows |-> "% margin", tenths |-> Margin(profitLoss, projectBudget)]
                    ELSE [shows |-> "% margin", tenths |-> Num(0)]]

\* the figures of the budget tracker
BudgetTracker(items, projectBudget) ==
    LET totalPlanned == reduce(items, "plannedCost", Num(0))
        totalActual == reduce(items, "actualCost", Num(0))
        profitLoss == Minus(Num(projectBudget), totalActual)
    IN  [totalPlanned |-> totalPlanned,
         totalActual |-> totalActual,
         profitLoss |-> profitLoss,
         margin |-> IF projectBudget > 0
                    THEN [shows |-> "% margin", tenths |-> Margin(profitLoss, projectBudget)]
                    ELSE [shows |-> "No budget set"]]

\* the tracker as the project page shows it
Tracker(projectId) ==
    BudgetTracker(budgetQuery(projectId), ProjectDetail(projectId).projectBudget)

BudgetProjectBodies ==
    {[name |-> "Shoot", type |-> "Blank"],
     [name |-> "Shoot", type |-> "Blank", budget |-> 5000],
     [name |-> "Shoot", type |-> "Blank", budget |-> 0]}

BudgetPatchProjectBodies == {[budget |-> 0], [budget |-> 5000]}

BudgetItemBodies ==
    {[projectId |-> p, description |-> "Studio", plannedCost |-> 1000, actualCost |-> 1200] :
        p \in ProjectRefs}
        \cup {[projectId |-> p, description |-> "Prints", plannedCost |-> 500,
               actualCost |-> 300] : p \in ProjectRefs}
        \cup {[projectId |-> p, description |-> "Travel", plannedCost |-> 100] :
               p \in ProjectRefs}

BudgetPatchItemBodies == {[actualCost |-> 120], [paymentStatus |-> "Paid"]}

\* the requests that the project page and its budget tracker send
BudgetNext ==
    \/ \E reqBody \in BudgetProjectBodies : PostProjects(reqBody)
    \/ \E id \in Refs("projects") : \E reqBody \in BudgetPatchProjectBodies :
          PatchProjectsId(id, reqBody)
    \/ \E reqBody \in BudgetItemBodies : PostBudgetItems(reqBody)
    \/ \E id \in Refs("budgetItems") : \E reqBody \in BudgetPatchItemBodies :
          PatchBudgetItemsId(id, reqBody)
    \/ \E id \in Refs("budgetItems") : DeleteBudgetItemsId(id)

BudgetInit == Start(MaxBudgetRequests)

BudgetSpec == BudgetInit /\ [][BudgetNext]_vars

\* ------------------------------------------------------- the status of a project
\* the statuses the project page offers
ProjectStatuses == {"Planning", "In Progress", "Editing", "Delivered"}

StatusProjectBodies ==
    {[name |-> "Shoot", type |-> "Blank", status |-> "Planning"],
     [name |-> "Archive", type |-> "Blank", status |-> "Delivered"]}

StatusPatchBodies == {[status |-> s] : s \in ProjectStatuses}

\* projects created, and their status changed by the page's PATCH /api/projects/:id
StatusNext ==
    \/ \E reqBody \in StatusProjectBodies : PostProjects(reqBody)
    \/ \E id \in Refs("projects") : \E reqBody \in StatusPatchBodies : PatchProjectsId(id, reqBody)

StatusInit == Start(MaxStatusRequests)

StatusSpec == StatusInit /\ [][StatusNext]_vars

\* ------------------------------------------------------- well-behaved callers
\* The store methods called by callers that create a dependent record only for a project
\* that is stored at that moment, and that never pass a projectId or an id to an update;
\* their calls interleave at the awaits of createProject.
WellBehavedNext ==
    \/ \E insertProject \in InsertProjects({"Portrait", "Blank"}) : createProject(insertProject)
    \/ \E c \in calls : Resume(c)
    \/ \E id \in Refs("projects") : deleteProject(id)
    \/ \E insertTask \in {t \in InsertTasks : MapHas(projects, t.projectId)} : createTask(insertTask)
    \/ \E id \in Refs("tasks") : updateTask(id, [status |-> "Completed"])
    \/ \E id \in Refs("tasks") : deleteTask(id)
    \/ \E insert \in {c \in InsertContacts : MapHas(projects, c.projectId)} : createContact(insert)
    \/ \E id \in Refs("contacts") : updateContact(id, [role |-> "Assistant"])
    \/ \E id \in Refs("contacts") : deleteContact(id)

WellBehavedInit == Start(MaxWellBehaved)

WellBehavedSpec == WellBehavedInit /\ [][WellBehavedNext]_vars

\* ------------------------------------------------------------------ claims
StoredDependentKeys == Keys(tasks) \cup Keys(contacts) \cup Keys(budgetItems) \cup Keys(calendarEvents)

\* C1: in the state deleteProject(id) leaves when it returns true, getProject(id) reports
\* not-found and getTasksByProject(id), getContactsByProject(id),
\* getBudgetItemsByProject(id) and getCalendarEventsByProject(id) are all empty.
C1_CascadeComplete ==
    (last.op = "deleteProject" /\ last.res = "true") =>
        /\ getProjectUndefined(last.id)
        /\ getTasksByProject(last.id) = <<>>
        /\ getContactsByProject(last.id) = <<>>
        /\ getBudgetItemsByProject(last.id) = <<>>
        /\ getCalendarEventsByProject(last.id) = <<>>

\* the entries of m that do not belong to project id
NotOf(m, id) == SelectSeq(m, LAMBDA e : Get(e.val, "projectId") # id)

\* C2: a step of deleteProject(id) leaves every other project's record, and every
\* task, contact, budget item and calendar event whose projectId is not id, as it was.
C2_CascadeIsolation ==
    [][\A id \in Refs("projects") :
          deleteProject(id) =>
              /\ MapDelete(projects', id) = MapDelete(projects, id)
              /\ NotOf(tasks', id) = NotOf(tasks, id)
              /\ NotOf(contacts', id) = NotOf(contacts, id)
              /\ NotOf(budgetItems', id) = NotOf(budgetItems, id)
              /\ NotOf(calendarEvents', id) = NotOf(calendarEvents, id)]_vars

C4_CreateProjectExclusive ==
    [][(\E c \in calls : c.op = "createProject" /\ c.todo # <<>>) =>
          (\E c \in calls : Resume(c))]_vars

KindNames == {"projects", "tasks", "contacts", "budgetItems", "calendarEvents"}

MapOf(kind) ==
    CASE kind = "projects" -> projects
      [] kind = "tasks" -> tasks
      [] kind = "contacts" -> contacts
      [] kind = "budgetItems" -> budgetItems
      [] kind = "calendarEvents" -> calendarEvents

\* C5: under create and delete calls, the ids given to the records of a kind are
\* pairwise different, ids of deleted records included, and the stored records of a kind
\* carry pairwise different ids, each one given by a create.
C5_IdsUnique ==
    \A kind \in KindNames :
        LET m == MapOf(kind)
            g == given[kind]
        IN  /\ \A i, j \in 1..Len(g) : g[i] = g[j] => i = j
            /\ \A i, j \in 1..Len(m) : Get(m[i].val, "id") = Get(m[j].val, "id") => i = j
            /\ \A i \in 1..Len(m) : Get(m[i].val, "id") \in Range(g)

\* a record created after an earlier record of its kind was deleted
C5_Witness ==
    \E kind \in KindNames :
        LET g == given[kind]
        IN  /\ Len(g) >= 2
            /\ g[1] \notin Keys(MapOf(kind))
            /\ g[Len(g)] \in Keys(MapOf(kind))
            /\ last.op \notin {"deleteProject", "deleteTask", "deleteContact",
                               "deleteBudgetItem", "deleteCalendarEvent"}

\* the records that m and n both store keep their id, createdAt and projectId, and n
\* stores under each key a record that carries that key as its id
Protected(m, n) ==
    /\ \A k \in Keys(m) \cap Keys(n) :
          /\ Get(MapGet(n, k), "id") = Get(MapGet(m, k), "id")
          /\ Get(MapGet(n, k), "createdAt") = Get(MapGet(m, k), "createdAt")
          /\ Get(MapGet(n, k), "projectId") = Get(MapGet(m, k), "projectId")
    /\ \A k \in Keys(n) : Get(MapGet(n, k), "id") = k

\* C6: no step of the store changes the id, createdAt or projectId of a stored record,
\* whatever data an update is given, and the record under a key carries that key as id.
C6_UpdateIgnoresProtected ==
    [][/\ Protected(projects, projects')
       /\ Protected(tasks, tasks')
       /\ Protected(contacts, contacts')
       /\ Protected(budgetItems, budgetItems')
       /\ Protected(calendarEvents, calendarEvents')]_vars

\* the (title, section) of each task of a sequence
Skeleton(ts) == [i \in 1..Len(ts) |-> [title |-> ts[i].title, section |-> ts[i].section]]

\* the position of key k in map m
IndexOf(m, k) == CHOOSE i \in 1..Len(m) : m[i].key = k

TemplateSize(type) ==
    CASE type = "Wedding" -> 13
      [] type = "Portrait" -> 10
      [] type = "Commercial" -> 11
      [] type = "Event" -> 11
      [] OTHER -> 0

\* C8: the tasks a createProject call of a templated type has created, followed by the
\* template entries it has yet to create, are the template of its type, in order (13, 10,
\* 11 and 11 entries for Wedding, Portrait, Commercial and Event); each was stored with
\* the new project's id, status "To Do", an empty assignee and no due date, and those
\* still stored are listed in template order; a createProject of type Blank has returned
\* with no task of its project stored.
C8_TemplateInstantiation ==
    /\ \A c \in calls :
          c.op = "createProject" =>
              /\ Skeleton(c.created) \o c.todo = projectTemplates(c.type).items
              /\ Len(c.created) + Len(c.todo) = TemplateSize(c.type)
              /\ \A i \in 1..Len(c.created) :
                    /\ c.created[i].projectId = c.id
                    /\ c.created[i].status = "To Do"
                    /\ c.created[i].assignee = ""
                    /\ "dueDate" \notin DOMAIN c.created[i]
              /\ \A i, j \in 1..Len(c.created) :
                    (/\ i < j
                     /\ MapHas(tasks, c.created[i].id)
                     /\ MapHas(tasks, c.created[j].id)) =>
                        IndexOf(tasks, c.created[i].id) < IndexOf(tasks, c.created[j].id)
              /\ (\/ last = Result("createTask", c.created[Len(c.created)].id, "returns")
                  \/ last = Result("createProject", c.id, "awaits")) =>
                    /\ MapHas(tasks, c.created[Len(c.created)].id)
                    /\ MapGet(tasks, c.created[Len(c.created)].id) = c.created[Len(c.created)]
    /\ (/\ last.op = "createProject"
        /\ MapHas(projects, last.id)
        /\ MapGet(projects, last.id).type = "Blank") =>
           /\ last.res = "returns"
           /\ getTasksByProject(last.id) = <<>>

\* a Wedding project whose 13 tasks are all stored and are listed as the template
C8_Witness ==
    \E c \in calls :
        /\ c.type = "Wedding"
        /\ c.todo = <<>>
        /\ Len(c.created) = 13
        /\ getTasksByProject(c.id) = c.created
        /\ Skeleton(getTasksByProject(c.id)) = WeddingTemplate

KnownTypes == {"Wedding", "Portrait", "Commercial", "Event", "Blank"}

\* C9: a createProject whose type is none of Wedding, Portrait, Commercial, Event and
\* Blank returns, with the project stored and no task of the project stored.
C9_UnknownTypeLikeBlank ==
    (/\ last.op = "createProject"
     /\ MapHas(projects, last.id)
     /\ MapGet(projects, last.id).type \notin KnownTypes) =>
        /\ last.res = "returns"
        /\ getTasksByProject(last.id) = <<>>

\* every record that m and n both store has in n the projectId it has in m
KeepsProjectId(m, n) ==
    \A k \in Keys(m) \cap Keys(n) :
        Get(MapGet(n, k), "projectId") = Get(MapGet(m, k), "projectId")

\* record carries every field of body that schema admits, dates as the route coerces them
Applied(schema, body, record) ==
    \A f \in schema \cap DOMAIN body :
        /\ f \in DOMAIN record
        /\ IF f \in DateFields THEN record[f] = CoerceDate(body, f) ELSE record[f] = body[f]

\* C7: no request changes the projectId of a stored task, contact, budget item or calendar
\* event, and a PATCH of one of them that answers 200 leaves in the record every other
\* field of its body, also when the body names another projectId.
C7_PatchKeepsProjectId ==
    [][/\ KeepsProjectId(tasks, tasks')
       /\ KeepsProjectId(contacts, contacts')
       /\ KeepsProjectId(budgetItems, budgetItems')
       /\ KeepsProjectId(calendarEvents, calendarEvents')
       /\ last'.res = "200" =>
             /\ last'.op = "PATCH /api/tasks/:id" =>
                   Applied(insertTaskSchema \ {"projectId"}, last'.body, MapGet(tasks', last'.id))
             /\ last'.op = "PATCH /api/contacts/:id" =>
                   Applied(insertContactSchema \ {"projectId"}, last'.body,
                           MapGet(contacts', last'.id))
             /\ last'.op = "PATCH /api/budget-items/:id" =>
                   Applied(insertBudgetItemSchema \ {"projectId"}, last'.body,
                           MapGet(budgetItems', last'.id))
             /\ last'.op = "PATCH /api/calendar-events/:id" =>
                   Applied(insertCalendarEventSchema \ {"projectId"}, last'.body,
                           MapGet(calendarEvents', last'.id))]_vars

\* a task whose PATCH named another project and a new status: the status is stored, the
\* projectId is the one the task was created with
C7_Witness ==
    /\ last.op = "PATCH /api/tasks/:id"
    /\ last.res = "200"
    /\ "projectId" \in DOMAIN last.body
    /\ last.body.projectId # MapGet(tasks, last.id).projectId
    /\ MapGet(tasks, last.id).status = last.body.status

\* the date fields of the records of a route
DatesOf(route) ==
    CASE route = "PATCH /api/projects/:id" -> {"shootDate"}
      [] route = "PATCH /api/tasks/:id" -> {"dueDate"}
      [] route = "PATCH /api/calendar-events/:id" -> {"startDate", "endDate"}
      [] OTHER -> {}

\* record n has the value of record m in every date field of fields that body leaves out
OmittedDatesKept(fields, body, m, n) ==
    \A f \in fields \ DOMAIN body : Get(n, f) = Get(m, f)

\* C10: a PATCH of a project, a task or a calendar event that answers 200 leaves every
\* date field that its body does not contain at the value stored before the request.
C10_OmittedDatesSurvive ==
    [][last'.res = "200" =>
          /\ last'.op = "PATCH /api/projects/:id" =>
                OmittedDatesKept(DatesOf(last'.op), last'.body,
                                 MapGet(projects, last'.id), MapGet(projects', last'.id))
          /\ last'.op = "PATCH /api/tasks/:id" =>
                OmittedDatesKept(DatesOf(last'.op), last'.body,
                                 MapGet(tasks, last'.id), MapGet(tasks', last'.id))
          /\ last'.op = "PATCH /api/calendar-events/:id" =>
                OmittedDatesKept(DatesOf(last'.op), last'.body,
                                 MapGet(calendarEvents, last'.id),
                                 MapGet(calendarEvents', last'.id))]_vars

\* map n is map m with the fields of data laid over the record under id, that record's
\* other fields and every other entry as they were
Merged(m, n, id, data) ==
    /\ Len(n) = Len(m)
    /\ \A i \in 1..Len(m) :
          IF m[i].key # id
          THEN n[i] = m[i]
          ELSE /\ n[i].key = id
               /\ DOMAIN n[i].val = DOMAIN m[i].val \cup DOMAIN data
               /\ \A f \in DOMAIN data : n[i].val[f] = data[f]
               /\ \A f \in DOMAIN m[i].val \ DOMAIN data : n[i].val[f] = m[i].val[f]

\* C11: a step of an update method on a stored id replaces, in the record under that id,
\* exactly the fields of data, keeps the record's other fields, and leaves every other
\* record of the five collections as it was.
C11_PartialUpdate ==
    [][/\ \A id \in Keys(projects) : \A data \in ProjectPatches(id) :
             updateProject(id, data) =>
                 /\ Merged(projects, projects', id, data)
                 /\ UNCHANGED <<tasks, contacts, budgetItems, calendarEvents>>
       /\ \A id \in Keys(tasks) : \A data \in TaskPatches(id) :
             updateTask(id, data) =>
                 /\ Merged(tasks, tasks', id, data)
                 /\ UNCHANGED <<projects, contacts, budgetItems, calendarEvents>>
       /\ \A id \in Keys(contacts) : \A data \in ContactPatches(id) :
             updateContact(id, data) =>
                 /\ Merged(contacts, contacts', id, data)
                 /\ UNCHANGED <<projects, tasks, budgetItems, calendarEvents>>
       /\ \A id \in Keys(budgetItems) : \A data \in BudgetItemPatches(id) :
             updateBudgetItem(id, data) =>
                 /\ Merged(budgetItems, budgetItems', id, data)
                 /\ UNCHANGED <<projects, tasks, contacts, calendarEvents>>
       /\ \A id \in Keys(calendarEvents) : \A data \in CalendarEventPatches(id) :
             updateCalendarEvent(id, data) =>
                 /\ Merged(calendarEvents, calendarEvents', id, data)
                 /\ UNCHANGED <<projects, tasks, contacts, budgetItems>>]_vars

\* a budget item marked paid by an update, its planned cost kept, next to another item
C11_Witness ==
    /\ last.op = "updateBudgetItem"
    /\ last.res = "returns"
    /\ Len(budgetItems) >= 2
    /\ MapHas(budgetItems, last.id)
    /\ MapGet(budgetItems, last.id).paymentStatus = "Paid"
    /\ MapGet(budgetItems, last.id).plannedCost = 100

DeleteOps ==
    {"deleteProject", "deleteTask", "deleteContact", "deleteBudgetItem", "deleteCalendarEvent"}

\* the collection a delete method removes from
TargetOf(op) ==
    CASE op = "deleteProject" -> projects
      [] op = "deleteTask" -> tasks
      [] op = "deleteContact" -> contacts
      [] op = "deleteBudgetItem" -> budgetItems
      [] op = "deleteCalendarEvent" -> calendarEvents

\* C12: a delete returns true exactly when its collection stored the id, and a delete
\* that directly follows the same delete of the same id returns false and leaves the
\* five collections as they were.
C12_IdempotentDelete ==
    [][last'.op \in DeleteOps =>
          /\ last'.res = (IF MapHas(TargetOf(last'.op), last'.id) THEN "true" ELSE "false")
          /\ (last.op = last'.op /\ last.id = last'.id) =>
                /\ last'.res = "false"
                /\ UNCHANGED <<projects, tasks, contacts, budgetItems, calendarEvents>>]_vars

\* a run of three calls: a task created, deleted, and deleted again with the answer false
C12_Witness ==
    /\ left = MaxOps - 3
    /\ last.op = "deleteTask"
    /\ last.res = "false"
    /\ last.id \in Range(given.tasks)
    /\ uuidCount = 1

\* C13: a deleteProject of an id that is no stored project returns false and leaves the
\* five collections as they were, the records that carry the id as projectId included.
C13_DeleteAbsentProject ==
    [][(last'.op = "deleteProject" /\ ~MapHas(projects, last'.id)) =>
          /\ last'.res = "false"
          /\ UNCHANGED <<projects, tasks, contacts, budgetItems, calendarEvents>>]_vars

\* deleteProject has answered false for an id that a stored task and a stored contact
\* carry as projectId
C13_Witness ==
    /\ last.op = "deleteProject"
    /\ last.res = "false"
    /\ getTasksByProject(last.id) # <<>>
    /\ getContactsByProject(last.id) # <<>>

\* the collection the id of a route names
RouteTarget(route) ==
    CASE route \in {"GET /api/projects/:id", "PATCH /api/projects/:id",
                    "DELETE /api/projects/:id"} -> projects
      [] route \in {"PATCH /api/tasks/:id", "DELETE /api/tasks/:id"} -> tasks
      [] route \in {"PATCH /api/contacts/:id", "DELETE /api/contacts/:id"} -> contacts
      [] route \in {"PATCH /api/budget-items/:id", "DELETE /api/budget-items/:id"} -> budgetItems
      [] route \in {"PATCH /api/calendar-events/:id", "DELETE /api/calendar-events/:id"} ->
            calendarEvents

ByIdRoutes ==
    {"GET /api/projects/:id", "PATCH /api/projects/:id", "DELETE /api/projects/:id",
     "PATCH /api/tasks/:id", "DELETE /api/tasks/:id",
     "PATCH /api/contacts/:id", "DELETE /api/contacts/:id",
     "PATCH /api/budget-items/:id", "DELETE /api/budget-items/:id",
     "PATCH /api/calendar-events/:id", "DELETE /api/calendar-events/:id"}

\* a request for an id that its collection does not store
NotFoundStep == last'.op \in ByIdRoutes /\ ~MapHas(RouteTarget(last'.op), last'.id)

\* the body of a request names a date that is no date
NamesInvalidDate(body) ==
    \E f \in DateFields \cap DOMAIN body : CoerceDate(body, f) = NaN

\* C14 as stated: a GET, PATCH or DELETE of an id that its collection does not store
\* answers 404 and leaves the five collections as they were.
C14_NotFoundAnswers404 ==
    [][NotFoundStep =>
          /\ last'.res = "404"
          /\ UNCHANGED <<projects, tasks, contacts, budgetItems, calendarEvents>>]_vars

\* C14, amended: a GET, PATCH or DELETE of an id that its collection does not store leaves
\* the five collections as they were, creating no record; it answers 404, except that a
\* PATCH whose body fails validation answers 400, the body being validated before the
\* store is asked.
C14_NotFoundNoSideEffects ==
    [][NotFoundStep =>
          /\ last'.res = (IF NamesInvalidDate(last'.body) THEN "400" ELSE "404")
          /\ UNCHANGED <<projects, tasks, contacts, budgetItems, calendarEvents>>]_vars

\* a PATCH with a valid body has answered 404 for an id no task has, next to a stored task
C14_Witness ==
    /\ last.op = "PATCH /api/tasks/:id"
    /\ last.res = "404"
    /\ last.body = [status |-> "Completed"]
    /\ ~MapHas(tasks, last.id)
    /\ tasks # <<>>

\* the number of records of m that carry id
Occurrences(m, id) == Cardinality({i \in 1..Len(m) : Get(m[i].val, "id") = id})

\* C15: a createProject or createTask call that has ended has returned; the record under
\* the returned id holds the fields of the input, the id and createdAt, and the list of
\* its collection holds one record with that id.
C15_CreateGetRoundTrip ==
    /\ (last.op = "createProject" /\ last.res # "awaits") =>
          /\ last.res = "returns"
          /\ MapHas(projects, last.id)
          /\ MapGet(projects, last.id).name = "Shoot"
          /\ MapGet(projects, last.id).type \in ProjectTypes
          /\ MapGet(projects, last.id).status = "Planning"
          /\ MapGet(projects, last.id).id = last.id
          /\ MapGet(projects, last.id).createdAt = Now
          /\ Occurrences(projects, last.id) = 1
    /\ last.op = "createTask" =>
          /\ last.res = "returns"
          /\ MapHas(tasks, last.id)
          /\ MapGet(tasks, last.id).status = "To Do"
          /\ MapGet(tasks, last.id).id = last.id
          /\ MapGet(tasks, last.id).createdAt = Now
          /\ Occurrences(tasks, last.id) = 1

\* record holds under f the value of body, or 0 when body has no f
HeldOrZero(record, body, f) ==
    /\ f \in DOMAIN record
    /\ record[f] = (IF f \in DOMAIN body THEN body[f] ELSE 0)

\* C16: the project a POST has created holds the budget of the request, 0 when the
\* request has none, and the budget item a POST has created holds the plannedCost and
\* actualCost of the request, 0 for each one the request lacks.
C16_DefaultsOnCreation ==
    /\ (last.op = "POST /api/projects" /\ last.res = "201") =>
          HeldOrZero(MapGet(projects, last.id), last.body, "budget")
    /\ (last.op = "POST /api/budget-items" /\ last.res = "201") =>
          /\ HeldOrZero(MapGet(budgetItems, last.id), last.body, "plannedCost")
          /\ HeldOrZero(MapGet(budgetItems, last.id), last.body, "actualCost")

\* C17: every budget a stored project holds, and every plannedCost and actualCost a
\* stored budget item holds, is at least 0.
C17_NonNegativeMoney ==
    /\ \A i \in 1..Len(projects) :
          "budget" \in DOMAIN projects[i].val => projects[i].val.budget >= 0
    /\ \A i \in 1..Len(budgetItems) :
          /\ "plannedCost" \in DOMAIN budgetItems[i].val => budgetItems[i].val.plannedCost >= 0
          /\ "actualCost" \in DOMAIN budgetItems[i].val => budgetItems[i].val.actualCost >= 0

\* the position of item x in a sequence of different items
PositionIn(seq, x) == CHOOSE i \in 1..Len(seq) : seq[i] = x

\* shown lists the items of window, each once, in ascending order of startDate, items of
\* equal startDate in the order they have in window
IsDayWindow(shown, window) ==
    /\ Len(shown) = Len(window)
    /\ Range(shown) = Range(window)
    /\ \A i, j \in 1..Len(shown) : i < j => TimeOf(shown[i]) <= TimeOf(shown[j])
    /\ \A i, j \in 1..Len(window) :
          (i < j /\ TimeOf(window[i]) = TimeOf(window[j])) =>
              PositionIn(shown, window[i]) < PositionIn(shown, window[j])

\* C18: the day view lists the items of the current date (its calendar events, then its
\* task deadlines, then its project shoots) in ascending order of startDate, items of equal
\* startDate in that order of concatenation.
C18_DayWindowOrder ==
    view = "day" => IsDayWindow(renderDayView, getAllEventsForDate(currentDate))

\* the day view of a date with an event at 08:00, a shoot at 10:00 and a task due at 23:00
C18_Witness ==
    /\ view = "day"
    /\ Len(renderDayView) = 3
    /\ renderDayView[1].type = "Meeting" /\ HourOf(TimeOf(renderDayView[1])) = 8
    /\ renderDayView[2].type = "Photoshoot" /\ HourOf(TimeOf(renderDayView[2])) = 10
    /\ renderDayView[3].type = "Deadline" /\ HourOf(TimeOf(renderDayView[3])) = 23

\* C19: each day of the week view lists the items of that day as the day view lists them:
\* in ascending order of startDate, items of equal startDate in order of concatenation.
C19_WeekShowsDayWindows ==
    view = "week" => \A i \in 1..Len(renderWeekView) :
        IsDayWindow(renderWeekView[i].events, getAllEventsForDate(renderWeekView[i].day))

\* C20: the week view has seven days, one after the other, the first a Sunday and the last
\* a Saturday, and the current date is one of them.
C20_WeekSpan ==
    view = "week" =>
    /\ Len(weekDays) = 7
    /\ \A i \in 1..(Len(weekDays) - 1) : DayOf(weekDays[i + 1]) = DayOf(weekDays[i]) + 1
    /\ getDay(weekDays[1]) = 0
    /\ getDay(weekDays[Len(weekDays)]) = 6
    /\ \E i \in 1..Len(weekDays) : isSameDay(weekDays[i], currentDate)

\* the week view, moved to a week by the arrows, on a date that is not the week's Sunday
C20_Witness ==
    /\ view = "week"
    /\ last.op = "navigateDate"
    /\ getDay(currentDate) = 3
    /\ HourOf(currentDate) = 9

\* C21: the month view shows a whole number of weeks of consecutive days, from the Sunday
\* of the week of the month's first day to the Saturday of the week of its last day, so
\* every day of the current date's month is shown.
C21_MonthGridComplete ==
    view = "month" =>
        LET days == monthDays
            n == Len(days)
            c == CivilOf(DayOf(currentDate))
            first == DayNumber(c.y, c.m, 1)
            final == DayNumber(c.y, c.m, MonthLength(c.y, c.m))
            shown == {DayOf(days[i]) : i \in 1..n}
        IN  /\ n > 0 /\ n % 7 = 0
            /\ \A i \in 1..(n - 1) : DayOf(days[i + 1]) = DayOf(days[i]) + 1
            /\ getDay(days[1]) = 0
            /\ DayOf(days[1]) <= first /\ first - DayOf(days[1]) < 7
            /\ getDay(days[n]) = 6
            /\ final <= DayOf(days[n]) /\ DayOf(days[n]) - final < 7
            /\ first..final \subseteq shown
            /\ DayOf(currentDate) \in first..final

\* the month view, moved by the arrows to a month that takes six weeks
C21_Witness ==
    /\ view = "month"
    /\ last.op = "navigateDate"
    /\ Len(monthDays) = 42

\* the stored records of a collection whose date property is set and falls on the day of date
RecordsOn(map, property, date) ==
    {i \in 1..Len(map) : /\ Get(map[i].val, property) # Undefined
                         /\ DayOf(Get(map[i].val, property)) = DayOf(date)}

\* C22: on every day of the current week the timeline has one item for every calendar
\* event that starts that day, one for every task due that day whatever its status, and
\* one for every project shot that day, and no other item: as many items as the three
\* counts together.
C22_TimelineMembership ==
    \A k \in 0..6 :
        LET date == startOfWeek(currentDate) + 24 * k + 12
            items == getAllEventsForDate(date)
            E == RecordsOn(calendarEvents, "startDate", date)
            T == RecordsOn(tasks, "dueDate", date)
            P == RecordsOn(projects, "shootDate", date)
            sources == {calendarEvents[i].key : i \in E} \cup {tasks[i].key : i \in T}
                           \cup {projects[i].key : i \in P}
        IN  /\ Len(items) = Cardinality(E) + Cardinality(T) + Cardinality(P)
            /\ \A id \in sources : Cardinality({j \in 1..Len(items) : items[j].id = id}) = 1
            /\ \A j \in 1..Len(items) : items[j].id \in sources

\* a day with an event, a completed task and a shoot at the same hour, and a stored task
\* without a due date
C22_Witness ==
    /\ Len(getAllEventsForDate(currentDate)) >= 3
    /\ \E i \in 1..Len(tasks) :
          /\ tasks[i].val.status = "Completed"
          /\ isSameDay(tasks[i].val.dueDate, currentDate)
          /\ \E j \in 1..Len(calendarEvents) : calendarEvents[j].val.startDate = tasks[i].val.dueDate
          /\ \E j \in 1..Len(projects) : projects[j].val.shootDate = tasks[i].val.dueDate
    /\ \E i \in 1..Len(tasks) : tasks[i].val.dueDate = Undefined

\* the item of the timeline made from the record of that id
ItemOf(items, id) == items[CHOOSE j \in 1..Len(items) : items[j].id = id]

\* item has every property that record holds, with the same value; a date is held as its
\* ISO string
KeepsFields(item, record) ==
    \A f \in DOMAIN record :
        IF f \in DateFields \cup {"createdAt"}
        THEN record[f] # Undefined => (f \in DOMAIN item /\ ParseISO(item[f]) = record[f])
        ELSE f \in DOMAIN item /\ item[f] = record[f]

\* C23: on the current date the item of a task is a Deadline with the task's id, title and
\* projectId that starts at the task's dueDate; the item of a project is a Photoshoot with
\* the project's id as id and as projectId, the project's name as title, that starts at its
\* shootDate; the item of a calendar event has the event's own type and properties.
C23_TimelineTagging ==
    LET items == getAllEventsForDate(currentDate)
    IN  /\ \A i \in RecordsOn(tasks, "dueDate", currentDate) :
              LET task == tasks[i].val
                  item == ItemOf(items, task.id)
              IN  /\ DOMAIN item = {"id", "type", "title", "startDate", "projectId"}
                  /\ item.type = "Deadline"
                  /\ item.title = task.title
                  /\ item.projectId = task.projectId
                  /\ ParseISO(item.startDate) = task.dueDate
        /\ \A i \in RecordsOn(projects, "shootDate", currentDate) :
              LET project == projects[i].val
                  item == ItemOf(items, project.id)
              IN  /\ DOMAIN item = {"id", "type", "title", "startDate", "projectId"}
                  /\ item.type = "Photoshoot"
                  /\ item.title = project.name
                  /\ item.projectId = project.id
                  /\ ParseISO(item.startDate) = project.shootDate
        /\ \A i \in RecordsOn(calendarEvents, "startDate", currentDate) :
              LET event == calendarEvents[i].val
              IN  KeepsFields(ItemOf(items, event.id), event)

\* a date with an item of each source, one of them an event that has an endDate
C23_Witness ==
    /\ RecordsOn(tasks, "dueDate", currentDate) # {}
    /\ RecordsOn(projects, "shootDate", currentDate) # {}
    /\ \E i \in RecordsOn(calendarEvents, "startDate", currentDate) :
          Get(calendarEvents[i].val, "endDate") # Undefined
    /\ last.op = "Today"

\* the sum of a cost over stored budget items, an item that holds none counting 0
RECURSIVE TotalOf(_, _)
TotalOf(items, property) ==
    IF items = <<>> THEN 0
    ELSE (IF property \in DOMAIN Head(items) THEN Head(items)[property] ELSE 0)
             + TotalOf(Tail(items), property)

\* the budget a stored project holds, 0 when it holds none
BudgetOf(project) == IF "budget" \in DOMAIN project THEN project.budget ELSE 0

\* C24: for every stored project, the tracker's totalPlanned is the sum of the plannedCost
\* of the project's budget items, its totalActual the sum of their actualCost, and its
\* profitLoss the project's budget less totalActual; the snapshot of the project page has
\* the same totalActual and profitLoss.
C24_BudgetArithmetic ==
    \A i \in 1..Len(projects) :
        LET project == projects[i].val
            items == SelectSeq(Values(budgetItems), LAMBDA item : item.projectId = project.id)
            tracker == Tracker(project.id)
            detail == ProjectDetail(project.id)
        IN  /\ tracker.totalPlanned = Num(TotalOf(items, "plannedCost"))
            /\ tracker.totalActual = Num(TotalOf(items, "actualCost"))
            /\ tracker.profitLoss = Num(BudgetOf(project) - TotalOf(items, "actualCost"))
            /\ detail.totalActual = tracker.totalActual
            /\ detail.profitLoss = tracker.profitLoss

\* C25: for every stored project whose budget is 0 the tracker reports "No budget set",
\* whatever the budget items, and it reports a percentage only for a budget above 0.
C25_ZeroBudgetGuard ==
    \A i \in 1..Len(projects) :
        LET project == projects[i].val
            margin == Tracker(project.id).margin
        IN  /\ BudgetOf(project) = 0 => margin = [shows |-> "No budget set"]
            /\ margin.shows = "% margin" => BudgetOf(project) > 0

\* a project whose budget has been set to 0 after a budget item with an actual cost was
\* added to it
C25_Witness ==
    /\ last.op = "PATCH /api/projects/:id"
    /\ \E i \in 1..Len(projects) :
          /\ Get(projects[i].val, "budget") = 0
          /\ Tracker(projects[i].val.id).totalActual = Num(1200)
          /\ Tracker(projects[i].val.id).profitLoss = Num(0 - 1200)

\* list() of a kind
List(kind) ==
    CASE kind = "projects" -> getProjects
      [] kind = "tasks" -> getTasks
      [] kind = "contacts" -> getContacts
      [] kind = "budgetItems" -> getBudgetItems
      [] kind = "calendarEvents" -> getCalendarEvents

\* listByProject(projectId) of a dependent kind
ListByProject(kind, projectId) ==
    CASE kind = "tasks" -> getTasksByProject(projectId)
      [] kind = "contacts" -> getContactsByProject(projectId)
      [] kind = "budgetItems" -> getBudgetItemsByProject(projectId)
      [] kind = "calendarEvents" -> getCalendarEventsByProject(projectId)

\* the stored records of a kind in the order in which their ids were given at creation
InInsertionOrder(kind) ==
    LET stored == SelectSeq(given[kind], LAMBDA id : MapHas(MapOf(kind), id))
    IN  [i \in 1..Len(stored) |-> MapGet(MapOf(kind), stored[i])]

\* C26: list() of every kind returns the stored records in the order of their creation,
\* whatever updates and deletes came between, and listByProject(p) returns those of them
\* whose projectId is p, in the same order, the empty sequence when there is none.
C26_ListingOrder ==
    /\ \A kind \in KindNames : List(kind) = InInsertionOrder(kind)
    /\ \A kind \in KindNames \ {"projects"} : \A p \in ProjectRefs :
          ListByProject(kind, p) =
              SelectSeq(InInsertionOrder(kind), LAMBDA record : record.projectId = p)

\* an update of the first of several tasks after which a project's list is a part of the
\* list of all tasks, and another project's list is empty
C26_Witness ==
    /\ last.op = "updateTask" /\ last.res = "returns"
    /\ Len(tasks) >= 2
    /\ tasks[1].key = last.id
    /\ \E p \in ProjectRefs : Len(getTasksByProject(p)) > 0 /\ Len(getTasksByProject(p)) < Len(tasks)
    /\ \E p \in ProjectRefs : getTasksByProject(p) = <<>>

DependentKinds == KindNames \ {"projects"}

CreateOpOf(kind) ==
    CASE kind = "tasks" -> "createTask"
      [] kind = "contacts" -> "createContact"
      [] kind = "budgetItems" -> "createBudgetItem"
      [] kind = "calendarEvents" -> "createCalendarEvent"

DeleteOpOf(kind) ==
    CASE kind = "tasks" -> "deleteTask"
      [] kind = "contacts" -> "deleteContact"
      [] kind = "budgetItems" -> "deleteBudgetItem"
      [] kind = "calendarEvents" -> "deleteCalendarEvent"

\* the keys of the stored records of a kind whose projectId names no stored project
Orphans(kind) ==
    {k \in Keys(MapOf(kind)) : ~MapHas(projects, Get(MapGet(MapOf(kind), k), "projectId"))}

\* the record a create has just returned, its projectId naming no stored project, is
\* listed by list() and by listByProject of that projectId
OrphanCreatedListed(kind) ==
    (last.op = CreateOpOf(kind) /\ last.id \in Orphans(kind)) =>
        /\ last.res = "returns"
        /\ \E i \in 1..Len(List(kind)) :
              /\ List(kind)[i].id = last.id
              /\ List(kind)[i] \in Range(ListByProject(kind, List(kind)[i].projectId))

\* C27: a create of a task, contact, budget item or calendar event whose projectId names
\* no stored project returns the record, which is then stored and listed by list() and by
\* listByProject of that projectId; and a stored record whose projectId names no stored
\* project is still stored after every step that is not its own delete.
C27_OrphanInsertsAccepted ==
    [][\A kind \in DependentKinds :
          /\ OrphanCreatedListed(kind)'
          /\ \A k \in Orphans(kind) :
                \/ MapHas(MapOf(kind)', k)
                \/ last' = Result(DeleteOpOf(kind), k, "true")]_vars

\* C28: a PATCH that names a stored project and carries one of the four statuses answers
\* 200 and leaves the project stored with that status, whatever status the project had.
C28_NoStatusTransitionRules ==
    [][(/\ last'.op = "PATCH /api/projects/:id"
        /\ MapHas(projects, last'.id)
        /\ last'.body \in StatusPatchBodies) =>
          /\ last'.res = "200"
          /\ MapHas(projects', last'.id)
          /\ MapGet(projects', last'.id).status = last'.body.status]_vars

\* a project created as Delivered that the PATCH after its creation has put back to Planning
C28_Witness ==
    /\ left = MaxStatusRequests - 2
    /\ last.op = "PATCH /api/projects/:id"
    /\ last.res = "200"
    /\ last.body.status = "Planning"
    /\ Len(projects) = 1
    /\ projects[1].val.name = "Archive"
    /\ projects[1].val.status = "Planning"

\* C29: whatever well-behaved callers do, every stored task, contact, budget item and
\* calendar event carries the projectId of a stored project; no template task of a deleted
\* project is stored.
C29_ReferentialIntegrity ==
    \A kind \in DependentKinds : Orphans(kind) = {}

\* C30: a POST /api/projects that answers with an error status leaves the project and task
\* collections as they were, and a request that stores a project answers 201 for it.
C30_FailedCreateLeavesNoTrace ==
    [][last'.op = "POST /api/projects" =>
          /\ last'.res # "201" => UNCHANGED <<projects, tasks>>
          /\ Keys(projects') # Keys(projects) =>
                /\ last'.res = "201"
                /\ Keys(projects') = Keys(projects) \cup {last'.id}]_vars

====
